---- MODULE Spec2Model ----
(***************************************************************************)
(* A model of search-ads-cli: the descriptor registry (command_tree.rs),   *)
(* the dynamic codec and the RPC client (client.rs) and the command flow   *)
(* of main.rs.                                                             *)
(*                                                                         *)
(* A Rust String is a sequence of one-character strings, so that the       *)
(* character-level functions (normalize, to_kebab, trim, starts_with) are  *)
(* computed as the code computes them.  Result<T> is a record              *)
(* [ok, val, err]; Option<T> is a record [some, val].                      *)
(***************************************************************************)
EXTENDS Integers, Sequences, FiniteSets, TLC

(***************************************************************************)
(* Bounds of the model.                                                    *)
(***************************************************************************)
\* Largest number of services in a descriptor pool.
MaxPool == 2

\* Largest number of elements of a repeated field of a message.
MaxList == 2

\* Largest number of bytes of a frame handed to the decoder by the transport.
MaxBuf == 3

(***************************************************************************)
(* Characters and strings (Rust's char and str methods, on ASCII).         *)
(***************************************************************************)
LowerLetters == <<"a", "b", "c", "d", "e", "f", "g", "h", "i", "j", "k", "l", "m", "n", "o", "p", "q", "r", "s", "t", "u", "v", "w", "x", "y", "z">>

UpperLetters == <<"A", "B", "C", "D", "E", "F", "G", "H", "I", "J", "K", "L", "M", "N", "O", "P", "Q", "R", "S", "T", "U", "V", "W", "X", "Y", "Z">>

Digits == <<"0", "1", "2", "3", "4", "5", "6", "7", "8", "9">>

\* The characters of the model in ascending byte order (str's Ord is byte-wise).
AsciiOrder == <<"\t", "\n", " ", "-", ".", "/", "0", "1", "2", "3", "4", "5", "6", "7", "8", "9", ":", "A", "B", "C", "D", "E", "F", "G", "H", "I", "J", "K", "L", "M", "N", "O", "P", "Q", "R", "S", "T", "U", "V", "W", "X", "Y", "Z", "_", "a", "b", "c", "d", "e", "f", "g", "h", "i", "j", "k", "l", "m", "n", "o", "p", "q", "r", "s", "t", "u", "v", "w", "x", "y", "z">>

Range(s) == {s[i] : i \in 1..Len(s)}

IndexOf(s, c) == CHOOSE i \in 1..Len(s) : s[i] = c

LowerSet == Range(LowerLetters)

UpperSet == Range(UpperLetters)

DigitSet == Range(Digits)

Ord == [c \in Range(AsciiOrder) |-> IndexOf(AsciiOrder, c)]

LowerOf == [c \in UpperSet |-> LowerLetters[IndexOf(UpperLetters, c)]]

is_ascii_digit(c) == c \in DigitSet

is_uppercase(c) == c \in UpperSet

is_ascii_alphanumeric(c) == c \in LowerSet \cup UpperSet \cup DigitSet

to_ascii_lowercase(c) == IF c \in UpperSet THEN LowerOf[c] ELSE c

Min(S) == CHOOSE x \in S : \A y \in S : x <= y

starts_with(s, p) == Len(p) <= Len(s) /\ SubSeq(s, 1, Len(p)) = p

contains(s, p) == \E i \in 1..(Len(s) - Len(p) + 1) : SubSeq(s, i, i + Len(p) - 1) = p

\* str::cmp: lexicographic on bytes; StrLess(a, b) is a.cmp(b) == Less.
StrLess(a, b) ==
    \E k \in 0..Len(a) :
        /\ k <= Len(b)
        /\ SubSeq(a, 1, k) = SubSeq(b, 1, k)
        /\ \/ (k = Len(a) /\ k < Len(b))
           \/ (k < Len(a) /\ k < Len(b) /\ Ord[a[k + 1]] < Ord[b[k + 1]])

\* str::split('.'): the parts between the separators, empty parts included.
RECURSIVE split(_, _)
split(s, sep) ==
    IF \A i \in 1..Len(s) : s[i] # sep THEN <<s>>
    ELSE LET i == Min({j \in 1..Len(s) : s[j] = sep})
         IN  <<SubSeq(s, 1, i - 1)>> \o split(SubSeq(s, i + 1, Len(s)), sep)

Ok(v) == [ok |-> TRUE, val |-> v, err |-> <<>>]

Err(e) == [ok |-> FALSE, val |-> <<>>, err |-> e]

Some(v) == [some |-> TRUE, val |-> v]

None == [some |-> FALSE, val |-> <<>>]

\* Result::map
map(r, F(_)) == IF r.ok THEN Ok(F(r.val)) ELSE r

\* Option::unwrap_or
unwrap_or(o, default) == IF o.some THEN o.val ELSE default

\* An operation that may use the network has the value [result, net]: its
\* result, and the network operations performed once it is over.
\* The ? operator on a Result r, in an operation that goes on as F with the
\* value: an Err is returned at once, the network as it is.
try(r, net_, F(_)) == IF r.ok THEN F(r.val) ELSE [result |-> Err(r.err), net |-> net_]

\* The result of e, if Ok, turned into the Result F makes of its value.
and_then(e, F(_)) ==
    [result |-> IF e.result.ok THEN F(e.result.val) ELSE e.result, net |-> e.net]

(***************************************************************************)
(* command_tree.rs: the descriptor registry.                               *)
(***************************************************************************)
GOOGLE_ADS_PREFIX == <<"g", "o", "o", "g", "l", "e", ".", "a", "d", "s", ".", "g", "o", "o", "g", "l", "e", "a", "d", "s", ".">>

SERVICES_SEGMENT == <<".", "s", "e", "r", "v", "i", "c", "e", "s", ".">>

\* ServiceDescriptor::full_name: the package, a dot, the declared name.
full_name(service) ==
    IF service.package = <<>> THEN service.name
    ELSE service.package \o <<".">> \o service.name

normalize(value) ==
    LET kept == SelectSeq(value, is_ascii_alphanumeric)
    IN  [i \in 1..Len(kept) |-> to_ascii_lowercase(kept[i])]

KebabChar(i, ch) ==
    IF is_uppercase(ch)
    THEN (IF i > 1 THEN <<"-">> ELSE <<>>) \o <<to_ascii_lowercase(ch)>>
    ELSE IF ch = "_" THEN <<"-">> ELSE <<ch>>

RECURSIVE KebabFrom(_, _)
KebabFrom(value, i) ==
    IF i > Len(value) THEN <<>>
    ELSE KebabChar(i, value[i]) \o KebabFrom(value, i + 1)

to_kebab(value) == KebabFrom(value, 1)

\* Mutant of names_match: the input need only be a prefix of the candidate.
names_match_prefix(candidate, input) ==
    starts_with(normalize(candidate), normalize(input))

names_match(candidate, input) == normalize(candidate) = normalize(input)

\* Mutant of service_matches: the fully-qualified form is forgotten.
service_matches_short_only(service, input) ==
    \/ names_match(service.name, input)
    \/ names_match(to_kebab(service.name), input)

service_matches(service, input) ==
    \/ names_match(service.name, input)
    \/ names_match(to_kebab(service.name), input)
    \/ names_match(full_name(service), input)

\* Mutant of is_google_ads_service: the services segment is not required.
is_google_ads_service_prefix_only(service) ==
    starts_with(full_name(service), GOOGLE_ADS_PREFIX)

is_google_ads_service(service) ==
    /\ starts_with(full_name(service), GOOGLE_ADS_PREFIX)
    /\ contains(full_name(service), SERVICES_SEGMENT)

\* Mutant of find_service: services that are not visible are searched too.
find_service_unfiltered(pool_, service) ==
    LET hits == {i \in 1..Len(pool_) : service_matches(pool_[i], service)}
    IN  IF hits = {} THEN Err(<<"u", "n", "k", "n", "o", "w", "n", " ", "s", "e", "r", "v", "i", "c", "e", " ">> \o service)
        ELSE Ok(Min(hits))

\* Mutant of find_service: the last matching service is taken, not the first.
find_service_last(pool_, service) ==
    LET hits == {i \in 1..Len(pool_) :
                    is_google_ads_service(pool_[i]) /\ service_matches(pool_[i], service)}
    IN  IF hits = {} THEN Err(<<"u", "n", "k", "n", "o", "w", "n", " ", "s", "e", "r", "v", "i", "c", "e", " ">> \o service)
        ELSE Ok(CHOOSE i \in hits : \A k \in hits : k <= i)

\* Iterator::find over pool.services(): the first service, in the pool's order,
\* that is visible and matches.  The value is the service's index in the pool.
find_service(pool_, service) ==
    LET hits == {i \in 1..Len(pool_) :
                    is_google_ads_service(pool_[i]) /\ service_matches(pool_[i], service)}
    IN  IF hits = {} THEN Err(<<"u", "n", "k", "n", "o", "w", "n", " ", "s", "e", "r", "v", "i", "c", "e", " ">> \o service)
        ELSE Ok(Min(hits))

method_matches(m, method) ==
    names_match(m.name, method) \/ names_match(to_kebab(m.name), method)

\* A MethodDescriptor is the pair (index of the parent service, index of the method).
find_method(pool_, service, method) ==
    LET target_service == find_service(pool_, service)
    IN  IF ~target_service.ok THEN target_service
        ELSE LET methods == pool_[target_service.val].methods
                 hits == {j \in 1..Len(methods) : method_matches(methods[j], method)}
             IN  IF hits = {}
                 THEN Err(<<"u", "n", "k", "n", "o", "w", "n", " ", "m", "e", "t", "h", "o", "d", " ">> \o service \o <<" ">> \o method)
                 ELSE Ok([service |-> target_service.val, method |-> Min(hits)])

\* Mutant of is_version_part: the length of the part is not looked at.
is_version_part_bare(part) ==
    /\ starts_with(part, <<"v">>)
    /\ \A i \in 2..Len(part) : is_ascii_digit(part[i])

is_version_part(part) ==
    /\ starts_with(part, <<"v">>)
    /\ Len(part) > 1
    /\ \A i \in 2..Len(part) : is_ascii_digit(part[i])

\* The first part of a split full name that is "v" followed only by digits.
first_version_part(parts) ==
    LET hits == {k \in 1..Len(parts) : is_version_part(parts[k])}
    IN  IF hits = {} THEN None ELSE Some(parts[Min(hits)])

detect_api_version(pool_) ==
    LET hits == {i \in 1..Len(pool_) :
                    /\ is_google_ads_service(pool_[i])
                    /\ first_version_part(split(full_name(pool_[i]), ".")).some}
    IN  IF hits = {} THEN None
        ELSE first_version_part(split(full_name(pool_[Min(hits)]), "."))

\* slice::sort_by(|a, b| a.name.cmp(&b.name)): a stable sort by the name field.
RECURSIVE InsertByName(_, _)
InsertByName(sorted, x) ==
    IF sorted = <<>> THEN <<x>>
    ELSE IF StrLess(x.name, sorted[Len(sorted)].name)
         THEN InsertByName(SubSeq(sorted, 1, Len(sorted) - 1), x) \o <<sorted[Len(sorted)]>>
         ELSE sorted \o <<x>>

\* Mutant of sort_by_name: the items are left in the pool's order.
sort_by_name_skipped(items) == items

RECURSIVE sort_by_name(_)
sort_by_name(items) ==
    IF items = <<>> THEN <<>>
    ELSE InsertByName(sort_by_name(SubSeq(items, 1, Len(items) - 1)), items[Len(items)])

MethodDefOf(service, method) ==
    [name |-> to_kebab(method.name),
     full_name |-> full_name(service) \o <<"/">> \o method.name,
     input_type |-> method.input,
     output_type |-> method.output,
     client_streaming |-> method.client_streaming,
     server_streaming |-> method.server_streaming]

ServiceDefOf(service) ==
    [name |-> to_kebab(service.name),
     full_name |-> full_name(service),
     methods |-> sort_by_name([j \in 1..Len(service.methods) |->
                                  MethodDefOf(service, service.methods[j])])]

build_tree(pool_) ==
    LET visible == SelectSeq(pool_, is_google_ads_service)
        version == detect_api_version(pool_)
    IN  [version |-> 1,
         api_version |-> IF version.some THEN version.val ELSE <<"u", "n", "k", "n", "o", "w", "n">>,
         services |-> sort_by_name([i \in 1..Len(visible) |-> ServiceDefOf(visible[i])])]

field_def(field) ==
    [name |-> field.name,
     json_name |-> field.json_name,
     cardinality |-> field.cardinality,
     kind |-> CASE field.kind = "message" -> "message:" \o field.type_name
                [] field.kind = "enum" -> "enum:" \o field.type_name
                [] OTHER -> "scalar:" \o field.kind,
     type_name |-> IF field.kind \in {"message", "enum"}
                   THEN Some(field.type_name) ELSE Some(field.kind)]

(***************************************************************************)
(* The descriptor set.  The embedded googleads.desc is an input of the     *)
(* program; the model draws its pools from this catalogue of descriptors.  *)
(* Type names, field names and scalar kind names are plain strings: the    *)
(* code only copies and concatenates them.                                 *)
(***************************************************************************)
Field(number, name, json_name, cardinality, kind, type_name) ==
    [number |-> number, name |-> name, json_name |-> json_name,
     cardinality |-> cardinality, kind |-> kind, type_name |-> type_name]

\* Message descriptors by full name: the ordered fields of each type.
MessageTypes ==
    [t \in {"Row", "Request", "SearchRequest", "MutateRequest", "Response"} |->
        CASE t = "Row" ->
               <<Field(1, "id", "id", "optional", "int32", "")>>
          [] t = "Request" ->
               <<Field(1, "customer_id", "customerId", "optional", "string", ""),
                 Field(2, "page_size", "pageSize", "optional", "int32", ""),
                 Field(3, "validate_only", "validateOnly", "optional", "bool", "")>>
          [] t = "SearchRequest" ->
               <<Field(1, "customer_id", "customerId", "optional", "string", ""),
                 Field(2, "query", "query", "optional", "string", ""),
                 Field(3, "page_token", "pageToken", "optional", "string", ""),
                 Field(4, "page_size", "pageSize", "optional", "int32", ""),
                 Field(5, "validate_only", "validateOnly", "optional", "bool", ""),
                 Field(7, "return_total_results_count", "returnTotalResultsCount",
                       "optional", "bool", ""),
                 Field(8, "summary_row_setting", "summaryRowSetting",
                       "optional", "enum", "Setting")>>
          [] t = "MutateRequest" ->
               <<Field(1, "customer_id", "customerId", "optional", "string", ""),
                 Field(2, "mutate_operations", "mutateOperations",
                       "repeated", "message", "Row"),
                 Field(3, "partial_failure", "partialFailure", "optional", "bool", ""),
                 Field(4, "validate_only", "validateOnly", "optional", "bool", ""),
                 Field(5, "response_content_type", "responseContentType",
                       "optional", "enum", "ContentType")>>
          [] t = "Response" ->
               <<Field(1, "results", "results", "repeated", "message", "Row"),
                 Field(2, "total", "total", "optional", "int32", ""),
                 Field(3, "setting", "setting", "optional", "enum", "Setting"),
                 Field(4, "ids", "ids", "repeated", "int32", ""),
                 Field(5, "row", "row", "optional", "message", "Row")>>]

\* Enum descriptors by full name: the value names, in number order from 0.
EnumTypes ==
    [t \in {"Setting", "ContentType"} |->
        IF t = "Setting"
        THEN <<<<"U", "N", "S", "P", "E", "C", "I", "F", "I", "E", "D">>, <<"N", "O", "_", "S", "U", "M", "M", "A", "R", "Y", "_", "R", "O", "W">>, <<"S", "U", "M", "M", "A", "R", "Y", "_", "R", "O", "W", "_", "O", "N", "L", "Y">>>>
        ELSE <<<<"U", "N", "S", "P", "E", "C", "I", "F", "I", "E", "D">>, <<"R", "E", "S", "O", "U", "R", "C", "E", "_", "N", "A", "M", "E", "_", "O", "N", "L", "Y">>, <<"M", "U", "T", "A", "B", "L", "E", "_", "R", "E", "S", "O", "U", "R", "C", "E">>>>]

Method(name, client_streaming, server_streaming) ==
    [name |-> name, input |-> "Request", output |-> "Response",
     client_streaming |-> client_streaming, server_streaming |-> server_streaming]

Service(package, name, methods) ==
    [package |-> package, name |-> name, methods |-> methods]

V1Services == <<"g", "o", "o", "g", "l", "e", ".", "a", "d", "s", ".", "g", "o", "o", "g", "l", "e", "a", "d", "s", ".", "v", "1", ".", "s", "e", "r", "v", "i", "c", "e", "s">>

V2Services == <<"g", "o", "o", "g", "l", "e", ".", "a", "d", "s", ".", "g", "o", "o", "g", "l", "e", "a", "d", "s", ".", "v", "2", ".", "s", "e", "r", "v", "i", "c", "e", "s">>

\* Two visible services whose order by hyphenated name ("ad-service" before
\* "add-service") is not their order by normalized name; the methods likewise.
AdServiceV1 ==
    Service(V1Services, <<"A", "d", "S", "e", "r", "v", "i", "c", "e">>,
            <<Method(<<"S", "e", "a", "r", "c", "h", "e", "s">>, FALSE, FALSE), Method(<<"S", "e", "a", "r", "c", "h", "S", "t", "r", "e", "a", "m">>, FALSE, TRUE)>>)

\* The same declared name in a second API version.
AdServiceV2 ==
    Service(V2Services, <<"A", "d", "S", "e", "r", "v", "i", "c", "e">>, <<Method(<<"S", "e", "a", "r", "c", "h", "S", "t", "r", "e", "a", "m">>, FALSE, TRUE)>>)

AddServiceV1 ==
    Service(V1Services, <<"A", "d", "d", "S", "e", "r", "v", "i", "c", "e">>,
            <<Method(<<"U", "p", "l", "o", "a", "d">>, TRUE, FALSE), Method(<<"m", "u", "t", "a", "t", "e", "_", "a", "d", "s">>, FALSE, FALSE)>>)

\* A declared name that normalizes like AdServiceV1's fully-qualified name.
AliasServiceV2 ==
    Service(V2Services, <<"G", "o", "o", "g", "l", "e", "A", "d", "s", "G", "o", "o", "g", "l", "e", "a", "d", "s", "V", "1", "S", "e", "r", "v", "i", "c", "e", "s", "A", "d", "S", "e", "r", "v", "i", "c", "e">>,
            <<Method(<<"S", "e", "a", "r", "c", "h", "e", "s">>, FALSE, FALSE)>>)

\* Not visible: the prefix without the services segment.
CommonAdService ==
    Service(<<"g", "o", "o", "g", "l", "e", ".", "a", "d", "s", ".", "g", "o", "o", "g", "l", "e", "a", "d", "s", ".", "v", "1", ".", "c", "o", "m", "m", "o", "n">>, <<"A", "d", "S", "e", "r", "v", "i", "c", "e">>,
            <<Method(<<"S", "e", "a", "r", "c", "h", "e", "s">>, FALSE, FALSE)>>)

\* Not visible: the services segment without the prefix.
AcmeAdService ==
    Service(<<"a", "c", "m", "e", ".", "s", "e", "r", "v", "i", "c", "e", "s">>, <<"A", "d", "S", "e", "r", "v", "i", "c", "e">>, <<Method(<<"S", "e", "a", "r", "c", "h", "e", "s">>, FALSE, FALSE)>>)

\* The service gaql search and mutate call.
GoogleAdsService ==
    Service(V1Services, <<"G", "o", "o", "g", "l", "e", "A", "d", "s", "S", "e", "r", "v", "i", "c", "e">>,
            <<[Method(<<"S", "e", "a", "r", "c", "h">>, FALSE, FALSE) EXCEPT !.input = "SearchRequest"],
              [Method(<<"S", "e", "a", "r", "c", "h", "S", "t", "r", "e", "a", "m">>, FALSE, TRUE) EXCEPT !.input = "SearchRequest"],
              [Method(<<"M", "u", "t", "a", "t", "e">>, FALSE, FALSE) EXCEPT !.input = "MutateRequest"]>>)

Catalogue ==
    {AdServiceV1, AdServiceV2, AddServiceV1, AliasServiceV2, CommonAdService, AcmeAdService}

\* A descriptor pool: services with distinct full names, in the pool's order.
Pools ==
    UNION {{p \in [1..n -> Catalogue] :
               \A i, j \in 1..n : i # j => full_name(p[i]) # full_name(p[j])} :
           n \in 0..MaxPool}

describe_method(pool_, service, method) ==
    LET method_desc == find_method(pool_, service, method)
    IN  IF ~method_desc.ok THEN method_desc
        ELSE LET parent == pool_[method_desc.val.service]
                 m == parent.methods[method_desc.val.method]
                 input == MessageTypes[m.input]
             IN  Ok([service |-> full_name(parent),
                     method |-> m.name,
                     input_type |-> m.input,
                     output_type |-> m.output,
                     fields |-> [k \in 1..Len(input) |-> field_def(input[k])]])

(***************************************************************************)
(* client.rs: the dynamic codec.  DynamicEncoder::encode and               *)
(* DynamicDecoder::decode call DynamicMessage's encode and decode, which   *)
(* are the protobuf wire format: a message is its set fields in number     *)
(* order, each a varint key (number * 8 + wire type) and a value.  A       *)
(* buffer is a sequence of bytes; a string value is its UTF-8 bytes.       *)
(* A message value is a record of its fields: a field without presence     *)
(* holds its default when unset, a message field holds an Option.  Unknown *)
(* fields are skipped by the decoder of the model and not kept.            *)
(***************************************************************************)
\* Wire types.
WT_VARINT == 0

WT_FIXED64 == 1

WT_LEN == 2

WT_FIXED32 == 5

RECURSIVE encode_varint(_)
encode_varint(n) ==
    IF n < 128 THEN <<n>>
    ELSE <<(n % 128) + 128>> \o encode_varint(n \div 128)

encode_key(number, wire_type) == encode_varint(number * 8 + wire_type)

length_delimited(bytes) == encode_varint(Len(bytes)) \o bytes

RECURSIVE concat(_)
concat(seqs) ==
    IF seqs = <<>> THEN <<>> ELSE seqs[1] \o concat(Tail(seqs))

is_repeated(field) == field.cardinality = "repeated"

\* The value of a field that is not set.
field_default(field) ==
    IF is_repeated(field) THEN <<>>
    ELSE CASE field.kind = "message" -> None
           [] field.kind = "string" -> <<>>
           [] field.kind = "bool" -> FALSE
           [] OTHER -> 0

default_message(type) ==
    LET fields == MessageTypes[type]
    IN  [name \in {fields[k].name : k \in 1..Len(fields)} |->
            field_default(fields[CHOOSE k \in 1..Len(fields) : fields[k].name = name])]

varint_of(field, value) ==
    IF field.kind = "bool" THEN (IF value THEN 1 ELSE 0) ELSE value

RECURSIVE encode_message(_, _)
\* One field of a message: nothing when it is unset (a default without presence).
encode_field(field, value) ==
    IF value = field_default(field) THEN <<>>
    ELSE IF field.kind = "message"
    THEN IF is_repeated(field)
         THEN concat([k \in 1..Len(value) |->
                        encode_key(field.number, WT_LEN)
                            \o length_delimited(encode_message(field.type_name, value[k]))])
         ELSE encode_key(field.number, WT_LEN)
                  \o length_delimited(encode_message(field.type_name, value.val))
    ELSE IF field.kind = "string"
    THEN IF is_repeated(field)
         THEN concat([k \in 1..Len(value) |->
                        encode_key(field.number, WT_LEN) \o length_delimited(value[k])])
         ELSE encode_key(field.number, WT_LEN) \o length_delimited(value)
    ELSE IF is_repeated(field)
    THEN encode_key(field.number, WT_LEN)
             \o length_delimited(concat([k \in 1..Len(value) |->
                                            encode_varint(varint_of(field, value[k]))]))
    ELSE encode_key(field.number, WT_VARINT) \o encode_varint(varint_of(field, value))

\* DynamicMessage::encode: the set fields in the descriptor's order.
encode_message(type, message) ==
    LET fields == MessageTypes[type]
    IN  concat([k \in 1..Len(fields) |-> encode_field(fields[k], message[fields[k].name])])

\* prost's decode_varint: [ok, val, rest]; it fails when the buffer ends inside
\* the varint.
RECURSIVE decode_varint_from(_, _, _, _)
decode_varint_from(bytes, i, acc, mult) ==
    IF i > Len(bytes) THEN [ok |-> FALSE, val |-> 0, rest |-> <<>>]
    ELSE IF bytes[i] < 128
    THEN [ok |-> TRUE, val |-> acc + bytes[i] * mult, rest |-> SubSeq(bytes, i + 1, Len(bytes))]
    ELSE decode_varint_from(bytes, i + 1, acc + (bytes[i] - 128) * mult, mult * 128)

decode_varint(bytes) == decode_varint_from(bytes, 1, 0, 1)

\* A length and that many bytes: [ok, payload, rest].
read_length_delimited(bytes) ==
    LET len == decode_varint(bytes)
    IN  IF ~len.ok \/ len.val > Len(len.rest)
        THEN [ok |-> FALSE, payload |-> <<>>, rest |-> <<>>]
        ELSE [ok |-> TRUE, payload |-> SubSeq(len.rest, 1, len.val),
              rest |-> SubSeq(len.rest, len.val + 1, Len(len.rest))]

\* The varints of a packed repeated field: [ok, vals].
RECURSIVE decode_packed(_)
decode_packed(bytes) ==
    IF bytes = <<>> THEN [ok |-> TRUE, vals |-> <<>>]
    ELSE LET v == decode_varint(bytes)
             more == decode_packed(v.rest)
         IN  IF ~v.ok \/ ~more.ok THEN [ok |-> FALSE, vals |-> <<>>]
             ELSE [ok |-> TRUE, vals |-> <<v.val>> \o more.vals]

value_of(field, varint) == IF field.kind = "bool" THEN varint # 0 ELSE varint

\* A field the descriptor does not know is skipped by its wire type.
skip_field(wire_type, bytes, message) ==
    CASE wire_type = WT_VARINT ->
           LET v == decode_varint(bytes)
           IN  IF ~v.ok THEN Err(<<"i", "n", "v", "a", "l", "i", "d", " ", "v", "a", "r", "i", "n", "t">>)
               ELSE Ok([rest |-> v.rest, message |-> message])
      [] wire_type = WT_LEN ->
           LET p == read_length_delimited(bytes)
           IN  IF ~p.ok THEN Err(<<"b", "u", "f", "f", "e", "r", " ", "u", "n", "d", "e", "r", "f", "l", "o", "w">>)
               ELSE Ok([rest |-> p.rest, message |-> message])
      [] wire_type = WT_FIXED64 ->
           IF Len(bytes) < 8 THEN Err(<<"b", "u", "f", "f", "e", "r", " ", "u", "n", "d", "e", "r", "f", "l", "o", "w">>)
           ELSE Ok([rest |-> SubSeq(bytes, 9, Len(bytes)), message |-> message])
      [] wire_type = WT_FIXED32 ->
           IF Len(bytes) < 4 THEN Err(<<"b", "u", "f", "f", "e", "r", " ", "u", "n", "d", "e", "r", "f", "l", "o", "w">>)
           ELSE Ok([rest |-> SubSeq(bytes, 5, Len(bytes)), message |-> message])
      [] OTHER -> Err(<<"u", "n", "e", "x", "p", "e", "c", "t", "e", "d", " ", "e", "n", "d", " ", "g", "r", "o", "u", "p", " ", "t", "a", "g">>)

RECURSIVE decode_fields(_, _, _)
\* One field read into the message: Ok([rest, message]) or the decode error.
merge_field(type, number, wire_type, bytes, message) ==
    LET fields == MessageTypes[type]
        hits == {k \in 1..Len(fields) : fields[k].number = number}
    IN  IF hits = {} THEN skip_field(wire_type, bytes, message)
        ELSE LET field == fields[CHOOSE k \in hits : TRUE]
                 old == message[field.name]
             IN
        IF field.kind \in {"message", "string"}
        THEN IF wire_type # WT_LEN THEN Err(<<"i", "n", "v", "a", "l", "i", "d", " ", "w", "i", "r", "e", " ", "t", "y", "p", "e">>)
             ELSE LET p == read_length_delimited(bytes)
                  IN  IF ~p.ok THEN Err(<<"b", "u", "f", "f", "e", "r", " ", "u", "n", "d", "e", "r", "f", "l", "o", "w">>)
                      ELSE IF field.kind = "string"
                      THEN IF \E k \in 1..Len(p.payload) : p.payload[k] >= 128
                           THEN Err(<<"i", "n", "v", "a", "l", "i", "d", " ", "s", "t", "r", "i", "n", "g", " ", "v", "a", "l", "u", "e", ":", " ", "d", "a", "t", "a", " ", "i", "s", " ", "n", "o", "t", " ", "U", "T", "F", "-", "8", " ", "e", "n", "c", "o", "d", "e", "d">>)
                           ELSE Ok([rest |-> p.rest,
                                    message |-> [message EXCEPT ![field.name] =
                                        IF is_repeated(field) THEN Append(old, p.payload)
                                        ELSE p.payload]])
                      ELSE LET base == IF ~is_repeated(field) /\ old.some THEN old.val
                                       ELSE default_message(field.type_name)
                               sub == decode_fields(field.type_name, p.payload, base)
                           IN  IF ~sub.ok THEN sub
                               ELSE Ok([rest |-> p.rest,
                                        message |-> [message EXCEPT ![field.name] =
                                            IF is_repeated(field) THEN Append(old, sub.val)
                                            ELSE Some(sub.val)]])
        ELSE IF is_repeated(field) /\ wire_type = WT_LEN
        THEN LET p == read_length_delimited(bytes)
                 packed == decode_packed(p.payload)
             IN  IF ~p.ok THEN Err(<<"b", "u", "f", "f", "e", "r", " ", "u", "n", "d", "e", "r", "f", "l", "o", "w">>)
                 ELSE IF ~packed.ok THEN Err(<<"i", "n", "v", "a", "l", "i", "d", " ", "v", "a", "r", "i", "n", "t">>)
                 ELSE Ok([rest |-> p.rest,
                          message |-> [message EXCEPT ![field.name] =
                              old \o [k \in 1..Len(packed.vals) |->
                                         value_of(field, packed.vals[k])]]])
        ELSE IF wire_type # WT_VARINT THEN Err(<<"i", "n", "v", "a", "l", "i", "d", " ", "w", "i", "r", "e", " ", "t", "y", "p", "e">>)
        ELSE LET v == decode_varint(bytes)
             IN  IF ~v.ok THEN Err(<<"i", "n", "v", "a", "l", "i", "d", " ", "v", "a", "r", "i", "n", "t">>)
                 ELSE Ok([rest |-> v.rest,
                          message |-> [message EXCEPT ![field.name] =
                              IF is_repeated(field) THEN Append(old, value_of(field, v.val))
                              ELSE value_of(field, v.val)]])

\* Message::merge: the fields of the buffer, one after another, until it is empty.
decode_fields(type, bytes, message) ==
    IF bytes = <<>> THEN Ok(message)
    ELSE LET key == decode_varint(bytes)
         IN  IF ~key.ok THEN Err(<<"i", "n", "v", "a", "l", "i", "d", " ", "v", "a", "r", "i", "n", "t">>)
             ELSE IF key.val % 8 > 5 THEN Err(<<"i", "n", "v", "a", "l", "i", "d", " ", "w", "i", "r", "e", " ", "t", "y", "p", "e", " ", "v", "a", "l", "u", "e">>)
             ELSE IF key.val \div 8 = 0 THEN Err(<<"i", "n", "v", "a", "l", "i", "d", " ", "t", "a", "g", " ", "v", "a", "l", "u", "e", ":", " ", "0">>)
             ELSE LET r == merge_field(type, key.val \div 8, key.val % 8, key.rest, message)
                  IN  IF ~r.ok THEN r
                      ELSE decode_fields(type, r.val.rest, r.val.message)

\* DynamicMessage::decode(desc, bytes).
decode_message(type, bytes) == decode_fields(type, bytes, default_message(type))

\* DynamicEncoder::encode(item, dst): the item's bytes are appended to dst.
\* The value is [result, dst].
DynamicEncoder_encode(item_type, item, dst) ==
    [result |-> Ok(<<>>), dst |-> dst \o encode_message(item_type, item)]

\* Mutant of DynamicDecoder_decode: the empty buffer is decoded like any other.
DynamicDecoder_decode_always(output, src) ==
    LET msg == decode_message(output, src)
    IN  [result |-> IF msg.ok THEN Ok(Some(msg.val))
                    ELSE Err([code |-> "Internal", message |-> <<"d", "e", "c", "o", "d", "e", " ", "e", "r", "r", "o", "r", ":", " ">> \o msg.err]),
         src |-> <<>>]

\* DynamicDecoder::decode(src): no message when src holds no byte, else all of
\* src is taken and decoded as one message of the output type.
\* The value is [result, src], src being what is left in the buffer.
DynamicDecoder_decode(output, src) ==
    IF Len(src) = 0 THEN [result |-> Ok(None), src |-> src]
    ELSE LET msg == decode_message(output, src)
         IN  [result |-> IF msg.ok THEN Ok(Some(msg.val))
                         ELSE Err([code |-> "Internal",
                                   message |-> <<"d", "e", "c", "o", "d", "e", " ", "e", "r", "r", "o", "r", ":", " ">> \o msg.err]),
              src |-> <<>>]

(***************************************************************************)
(* client.rs: the RPC client.  A request handed to the transport is a      *)
(* record of the call mode, the path, the metadata, the timeout and the    *)
(* message; the metadata is a function of the header names inserted.       *)
(***************************************************************************)
is_whitespace(c) == c \in {" ", "\t", "\n"}

RECURSIVE trim_start(_)
trim_start(s) ==
    IF s # <<>> /\ is_whitespace(Head(s)) THEN trim_start(Tail(s)) ELSE s

RECURSIVE trim_end(_)
trim_end(s) ==
    IF s # <<>> /\ is_whitespace(s[Len(s)]) THEN trim_end(SubSeq(s, 1, Len(s) - 1)) ELSE s

\* str::trim
trim(s) == trim_end(trim_start(s))

\* A byte a header value may hold: visible ASCII, the space or the tab.
is_valid_header_byte(c) == c = "\t" \/ (c # "\n" /\ c \in Range(AsciiOrder))

\* MetadataValue::try_from(&str)
MetadataValue_try_from(value) ==
    IF \A i \in 1..Len(value) : is_valid_header_byte(value[i]) THEN Ok(value) ELSE Err(<<>>)

\* MetadataMap::insert
insert(metadata, key, value) ==
    [k \in DOMAIN metadata \cup {key} |-> IF k = key THEN value ELSE metadata[k]]

\* Mutant of build_request: the access token is not trimmed.
build_request_untrimmed(self, message) ==
    LET developer == MetadataValue_try_from(self.developer_token)
        auth == MetadataValue_try_from(<<"B", "e", "a", "r", "e", "r", " ">> \o self.access_token)
        login == MetadataValue_try_from(self.login_customer_id.val)
        m1 == insert(<<>>, "developer-token", developer.val)
        m2 == insert(m1, "authorization", auth.val)
        m3 == IF self.login_customer_id.some
              THEN insert(m2, "login-customer-id", login.val) ELSE m2
    IN  IF ~developer.ok THEN Err(<<"i", "n", "v", "a", "l", "i", "d", " ", "d", "e", "v", "e", "l", "o", "p", "e", "r", " ", "t", "o", "k", "e", "n">>)
        ELSE IF ~auth.ok THEN Err(<<"i", "n", "v", "a", "l", "i", "d", " ", "a", "c", "c", "e", "s", "s", " ", "t", "o", "k", "e", "n">>)
        ELSE IF self.login_customer_id.some /\ ~login.ok
        THEN Err(<<"i", "n", "v", "a", "l", "i", "d", " ", "l", "o", "g", "i", "n", "-", "c", "u", "s", "t", "o", "m", "e", "r", "-", "i", "d">>)
        ELSE Ok([message |-> message, metadata |-> m3, timeout |-> self.timeout])

\* AdsClient::build_request
build_request(self, message) ==
    LET developer == MetadataValue_try_from(self.developer_token)
        auth_value == <<"B", "e", "a", "r", "e", "r", " ">> \o trim(self.access_token)
        auth == MetadataValue_try_from(auth_value)
        login == MetadataValue_try_from(self.login_customer_id.val)
        m1 == insert(<<>>, "developer-token", developer.val)
        m2 == insert(m1, "authorization", auth.val)
        m3 == IF self.login_customer_id.some
              THEN insert(m2, "login-customer-id", login.val) ELSE m2
    IN  IF ~developer.ok THEN Err(<<"i", "n", "v", "a", "l", "i", "d", " ", "d", "e", "v", "e", "l", "o", "p", "e", "r", " ", "t", "o", "k", "e", "n">>)
        ELSE IF ~auth.ok THEN Err(<<"i", "n", "v", "a", "l", "i", "d", " ", "a", "c", "c", "e", "s", "s", " ", "t", "o", "k", "e", "n">>)
        ELSE IF self.login_customer_id.some /\ ~login.ok
        THEN Err(<<"i", "n", "v", "a", "l", "i", "d", " ", "l", "o", "g", "i", "n", "-", "c", "u", "s", "t", "o", "m", "e", "r", "-", "i", "d">>)
        ELSE Ok([message |-> message, metadata |-> m3, timeout |-> self.timeout])

\* Mutant of normalize_endpoint: only the secure scheme is recognised.
normalize_endpoint_secure_only(endpoint) ==
    IF starts_with(endpoint, <<"h", "t", "t", "p", "s", ":", "/", "/">>)
    THEN Ok(endpoint)
    ELSE Ok(<<"h", "t", "t", "p", "s", ":", "/", "/">> \o endpoint)

normalize_endpoint(endpoint) ==
    IF starts_with(endpoint, <<"h", "t", "t", "p", ":", "/", "/">>) \/ starts_with(endpoint, <<"h", "t", "t", "p", "s", ":", "/", "/">>)
    THEN Ok(endpoint)
    ELSE Ok(<<"h", "t", "t", "p", "s", ":", "/", "/">> \o endpoint)

\* method is a MethodDescriptor: the indices of a service and of its method.
method_path(pool_, method) ==
    LET service == pool_[method.service]
    IN  <<"/">> \o full_name(service) \o <<"/">> \o service.methods[method.method].name

\* The request a call hands to the transport.
Rpc(mode, pool_, method, request) ==
    [kind |-> "rpc", mode |-> mode, path |-> method_path(pool_, method),
     metadata |-> request.metadata, timeout |-> request.timeout,
     message |-> request.message]

\* Mutant of unary: a call that failed is issued a second time.
unary_retrying(self, pool_, method, message, outcome, net_) ==
    try(build_request(self, message), net_, LAMBDA request :
        [result |-> outcome,
         net |-> IF outcome.ok
                 THEN Append(net_, Rpc("unary", pool_, method, request))
                 ELSE net_ \o <<Rpc("unary", pool_, method, request),
                                Rpc("unary", pool_, method, request)>>])

\* AdsClient::unary.  outcome is what the peer and the transport answer: a
\* response or a status.  The value is [result, net].
unary(self, pool_, method, message, outcome, net_) ==
    try(build_request(self, message), net_, LAMBDA request :
        [result |-> outcome,
         net |-> Append(net_, Rpc("unary", pool_, method, request))])

\* Mutant of server_stream: each message is put in front of those read
\* before it.
server_stream_reversed(self, pool_, method, message, outcome, net_) ==
    try(build_request(self, message), net_, LAMBDA request :
        [result |-> IF outcome.open.some THEN Err(outcome.open.val)
                    ELSE IF outcome.error.some THEN Err(outcome.error.val)
                    ELSE Ok([i \in 1..Len(outcome.messages) |->
                                outcome.messages[Len(outcome.messages) + 1 - i]]),
         net |-> Append(net_, Rpc("server_streaming", pool_, method, request))])

\* AdsClient::server_stream.  outcome is [open, messages, error]: the status
\* the call is answered with, if it fails, else the messages the stream
\* delivers and the status that ends it, if any.
server_stream(self, pool_, method, message, outcome, net_) ==
    try(build_request(self, message), net_, LAMBDA request :
        [result |-> IF outcome.open.some THEN Err(outcome.open.val)
                    ELSE IF outcome.error.some THEN Err(outcome.error.val)
                    ELSE Ok(outcome.messages),
         net |-> Append(net_, Rpc("server_streaming", pool_, method, request))])

\* AdsClient::server_streaming_raw: the stream is returned unread.
server_streaming_raw(self, pool_, method, message, outcome, net_) ==
    try(build_request(self, message), net_, LAMBDA request :
        [result |-> IF outcome.open.some THEN Err(outcome.open.val)
                    ELSE Ok([messages |-> outcome.messages, error |-> outcome.error]),
         net |-> Append(net_, Rpc("server_streaming", pool_, method, request))])

\* Endpoint::from_shared: the endpoint has to be a URI.
Endpoint_from_shared(endpoint) ==
    IF endpoint # <<>> /\ \A i \in 1..Len(endpoint) : ~is_whitespace(endpoint[i])
    THEN Ok(endpoint) ELSE Err(<<"i", "n", "v", "a", "l", "i", "d", " ", "u", "r", "i", " ", "c", "h", "a", "r", "a", "c", "t", "e", "r">>)

\* AdsClient::connect.  outcome is what the connection attempt comes to.
\* The value is [result, net].
connect(endpoint, developer_token, login_customer_id, access_token, timeout, outcome, net_) ==
    try(normalize_endpoint(endpoint), net_, LAMBDA normalized :
    try(Endpoint_from_shared(normalized), net_, LAMBDA builder :
        [result |-> IF outcome = "connected"
                    THEN Ok([channel |-> builder,
                             developer_token |-> developer_token,
                             login_customer_id |-> login_customer_id,
                             access_token |-> access_token,
                             timeout |-> timeout])
                    ELSE Err(<<"t", "r", "a", "n", "s", "p", "o", "r", "t", " ", "e", "r", "r", "o", "r">>),
         net |-> Append(net_, [kind |-> "connect", endpoint |-> builder,
                               timeout |-> timeout])]))

\* Streaming::message, called for the k-th time on a stream.
stream_message(stream, k) ==
    IF k <= Len(stream.messages) THEN Ok(Some(stream.messages[k]))
    ELSE IF stream.error.some THEN Err(stream.error.val)
    ELSE Ok(None)

(***************************************************************************)
(* serde_json::Value.  Every value is a record of the same shape, of which *)
(* the field named by t holds the content.                                 *)
(***************************************************************************)
Value_Null == [t |-> "null", b |-> FALSE, n |-> 0, s |-> <<>>, a |-> <<>>, o |-> <<>>]

Value_Bool(b) == [Value_Null EXCEPT !.t = "bool", !.b = b]

Value_Number(n) == [Value_Null EXCEPT !.t = "number", !.n = n]

Value_String(s) == [Value_Null EXCEPT !.t = "string", !.s = s]

Value_Array(a) == [Value_Null EXCEPT !.t = "array", !.a = a]

Value_Object(o) == [Value_Null EXCEPT !.t = "object", !.o = o]

\* Value::get
get(value, key) ==
    IF value.t = "object" /\ key \in DOMAIN value.o THEN Some(value.o[key]) ELSE None

(***************************************************************************)
(* proto_json.rs: the protobuf JSON mapping between a Value and a message  *)
(* of a type.  A field is named by its JSON name or by its declared name,  *)
(* an unknown key is an error, and a field holding its default is left out *)
(* of the JSON of a message.                                               *)
(***************************************************************************)
RECURSIVE parse_digits(_)
parse_digits(s) ==
    IF s = <<>> THEN 0
    ELSE parse_digits(SubSeq(s, 1, Len(s) - 1)) * 10 + (IndexOf(Digits, s[Len(s)]) - 1)

InputOf(pool_, method) == pool_[method.service].methods[method.method].input

OutputOf(pool_, method) == pool_[method.service].methods[method.method].output

RECURSIVE deserialize_message(_, _)

deserialize_element(field, value) ==
    CASE field.kind = "string" ->
           IF value.t = "string" THEN Ok(value.s) ELSE Err(<<>>)
      [] field.kind = "bool" ->
           IF value.t = "bool" THEN Ok(value.b) ELSE Err(<<>>)
      [] field.kind = "enum" ->
           LET names == EnumTypes[field.type_name]
           IN  IF value.t = "number" THEN Ok(value.n)
               ELSE IF value.t = "string" /\ \E i \in 1..Len(names) : names[i] = value.s
               THEN Ok((CHOOSE i \in 1..Len(names) : names[i] = value.s) - 1)
               ELSE Err(<<>>)
      [] field.kind = "message" -> deserialize_message(field.type_name, value)
      [] OTHER ->
           IF value.t = "number" THEN Ok(value.n)
           ELSE IF /\ value.t = "string"
                   /\ value.s # <<>>
                   /\ \A i \in 1..Len(value.s) : is_ascii_digit(value.s[i])
           THEN Ok(parse_digits(value.s))
           ELSE Err(<<>>)

deserialize_field(field, value) ==
    IF value.t = "null" THEN Ok(field_default(field))
    ELSE IF is_repeated(field)
    THEN IF value.t # "array" THEN Err(<<>>)
         ELSE LET elements == [i \in 1..Len(value.a) |-> deserialize_element(field, value.a[i])]
              IN  IF \E i \in 1..Len(value.a) : ~elements[i].ok THEN Err(<<>>)
                  ELSE Ok([i \in 1..Len(value.a) |-> elements[i].val])
    ELSE LET element == deserialize_element(field, value)
         IN  IF ~element.ok THEN element
             ELSE IF field.kind = "message" THEN Ok(Some(element.val))
             ELSE element

\* DynamicMessage::deserialize(desc, value)
deserialize_message(type, value) ==
    LET fields == MessageTypes[type]
        keys == IF value.t = "object" THEN DOMAIN value.o ELSE {}
        keys_of(k) == {key \in keys : fields[k].json_name = key \/ fields[k].name = key}
        field_value(k) ==
            IF keys_of(k) = {} THEN Ok(field_default(fields[k]))
            ELSE deserialize_field(fields[k], value.o[CHOOSE key \in keys_of(k) : TRUE])
    IN  IF value.t # "object" THEN Err(<<>>)
        ELSE IF \E key \in keys : \A k \in 1..Len(fields) : key \notin keys_of(k)
        THEN Err(<<>>)
        ELSE IF \E k \in 1..Len(fields) : Cardinality(keys_of(k)) > 1 THEN Err(<<>>)
        ELSE IF \E k \in 1..Len(fields) : ~field_value(k).ok THEN Err(<<>>)
        ELSE Ok([name \in {fields[k].name : k \in 1..Len(fields)} |->
                    field_value(CHOOSE k \in 1..Len(fields) : fields[k].name = name).val])

dynamic_from_value(desc, value) ==
    LET msg == deserialize_message(desc, value)
    IN  IF msg.ok THEN Ok(msg.val) ELSE Err(<<"d", "e", "c", "o", "d", "e", " ", "j", "s", "o", "n", " ", "i", "n", "t", "o", " ", "p", "r", "o", "t", "o">>)

RECURSIVE serialize_message(_, _)

serialize_element(field, v) ==
    CASE field.kind = "string" -> Value_String(v)
      [] field.kind = "bool" -> Value_Bool(v)
      [] field.kind = "enum" ->
           LET names == EnumTypes[field.type_name]
           IN  IF v + 1 \in 1..Len(names) THEN Value_String(names[v + 1]) ELSE Value_Number(v)
      [] field.kind = "message" -> serialize_message(field.type_name, v)
      [] OTHER -> Value_Number(v)

\* DynamicMessage's Serialize
serialize_message(type, message) ==
    LET fields == MessageTypes[type]
        set == {k \in 1..Len(fields) : message[fields[k].name] # field_default(fields[k])}
    IN  Value_Object(
            [key \in {fields[k].json_name : k \in set} |->
                LET field == fields[CHOOSE k \in set : fields[k].json_name = key]
                    v == message[field.name]
                IN  IF is_repeated(field)
                    THEN Value_Array([i \in 1..Len(v) |-> serialize_element(field, v[i])])
                    ELSE IF field.kind = "message" THEN serialize_element(field, v.val)
                    ELSE serialize_element(field, v)])

\* dynamic_to_value(message), message being of the type desc.
dynamic_to_value(desc, message) == Ok(serialize_message(desc, message))

(***************************************************************************)
(* json_input.rs.  The argument is described by what the file system and   *)
(* the JSON parser make of it: whether the trimmed text starts with '@',   *)
(* whether the path it names exists, and the value its text or its file    *)
(* parses to, if it parses.                                                *)
(***************************************************************************)
read_json_file(raw) ==
    IF ~raw.exists THEN Err(<<"r", "e", "a", "d", " ", "j", "s", "o", "n", " ", "f", "i", "l", "e">>)
    ELSE IF ~raw.parsed.some THEN Err(<<"i", "n", "v", "a", "l", "i", "d", " ", "J", "S", "O", "N", " ", "i", "n", " ", "f", "i", "l", "e">>)
    ELSE Ok(raw.parsed.val)

read_json_input(raw) ==
    IF raw.at THEN read_json_file(raw)
    ELSE IF raw.exists THEN read_json_file(raw)
    ELSE IF raw.parsed.some THEN Ok(raw.parsed.val)
    ELSE Err(<<"i", "n", "v", "a", "l", "i", "d", " ", "J", "S", "O", "N", " ", "i", "n", "p", "u", "t">>)

(***************************************************************************)
(* auth.rs                                                                 *)
(***************************************************************************)
\* Mutant of normalize_customer_id: only the hyphens are taken out.
normalize_customer_id_hyphens(value) == SelectSeq(value, LAMBDA c : c # "-")

normalize_customer_id(value) == SelectSeq(value, is_ascii_digit)

\* resolve_access_token.  outcome is what the token endpoint answers, should
\* it be asked.  The value is [result, net].
resolve_access_token(config, outcome, net_) ==
    IF config.access_token.some /\ trim(config.access_token.val) # <<>>
    THEN [result |-> Ok(trim(config.access_token.val)), net |-> net_]
    ELSE IF ~config.client_id.some
    THEN [result |-> Err(<<"G", "O", "O", "G", "L", "E", "_", "A", "D", "S", "_", "C", "L", "I", "E", "N", "T", "_", "I", "D", " ", "m", "i", "s", "s", "i", "n", "g">>), net |-> net_]
    ELSE IF ~config.client_secret.some
    THEN [result |-> Err(<<"G", "O", "O", "G", "L", "E", "_", "A", "D", "S", "_", "C", "L", "I", "E", "N", "T", "_", "S", "E", "C", "R", "E", "T", " ", "m", "i", "s", "s", "i", "n", "g">>), net |-> net_]
    ELSE IF ~config.refresh_token.some
    THEN [result |-> Err(<<"G", "O", "O", "G", "L", "E", "_", "A", "D", "S", "_", "R", "E", "F", "R", "E", "S", "H", "_", "T", "O", "K", "E", "N", " ", "m", "i", "s", "s", "i", "n", "g">>), net |-> net_]
    ELSE [result |->
              CASE outcome.kind = "send_error" -> Err(<<"r", "e", "q", "u", "e", "s", "t", " ", "O", "A", "u", "t", "h", " ", "t", "o", "k", "e", "n">>)
                [] outcome.kind = "read_error" -> Err(<<"r", "e", "a", "d", " ", "O", "A", "u", "t", "h", " ", "r", "e", "s", "p", "o", "n", "s", "e">>)
                [] outcome.kind = "http_error" ->
                     Err(<<"o", "a", "u", "t", "h", " ", "h", "t", "t", "p", " ">> \o outcome.status \o <<":", " ">> \o outcome.body)
                [] outcome.kind = "decode_error" -> Err(<<"d", "e", "c", "o", "d", "e", " ", "O", "A", "u", "t", "h", " ", "r", "e", "s", "p", "o", "n", "s", "e">>)
                [] OTHER -> Ok(outcome.access_token),
          net |-> Append(net_, [kind |-> "oauth",
                                url |-> <<"h", "t", "t", "p", "s", ":", "/", "/", "o", "a", "u", "t", "h", "2", ".", "g", "o", "o", "g", "l", "e", "a", "p", "i", "s", ".", "c", "o", "m", "/", "t", "o", "k", "e", "n">>,
                                client_id |-> config.client_id.val,
                                client_secret |-> config.client_secret.val,
                                refresh_token |-> config.refresh_token.val])]

(***************************************************************************)
(* gaql.rs and mutate.rs.  outcome is what the peer answers the call with: *)
(* [unary, stream], of which the call made reads its part.  The value of   *)
(* run_search and of run_mutate is [result, net].                          *)
(***************************************************************************)
SERVICE == <<"g", "o", "o", "g", "l", "e", "-", "a", "d", "s", "-", "s", "e", "r", "v", "i", "c", "e">>

SEARCH == <<"s", "e", "a", "r", "c", "h">>

SEARCH_STREAM == <<"s", "e", "a", "r", "c", "h", "-", "s", "t", "r", "e", "a", "m">>

MUTATE == <<"m", "u", "t", "a", "t", "e">>

Output_Json(value) == [kind |-> "Json", value |-> value, lines |-> <<>>]

Output_JsonLines(values) == [kind |-> "JsonLines", value |-> Value_Null, lines |-> values]

\* Mutant of build_search_request: the paging fields are included whatever
\* the variant.
build_search_request_paging(args) ==
    LET keys ==
            {"customerId", "query"}
                \cup (IF args.page_size.some THEN {"pageSize"} ELSE {})
                \cup (IF args.page_token.some THEN {"pageToken"} ELSE {})
                \cup (IF args.validate_only THEN {"validateOnly"} ELSE {})
                \cup (IF args.summary_row_setting.some THEN {"summaryRowSetting"} ELSE {})
                \cup (IF args.use_search /\ args.return_total_results_count
                      THEN {"returnTotalResultsCount"} ELSE {})
    IN  Value_Object(
            [key \in keys |->
                CASE key = "customerId" -> Value_String(args.customer_id)
                  [] key = "query" -> Value_String(args.query)
                  [] key = "pageSize" -> Value_Number(args.page_size.val)
                  [] key = "pageToken" -> Value_String(args.page_token.val)
                  [] key = "summaryRowSetting" -> Value_String(args.summary_row_setting.val)
                  [] OTHER -> Value_Bool(TRUE)])

\* The map is given by its keys and the value inserted under each.
build_search_request(args) ==
    LET keys ==
            {"customerId", "query"}
                \cup (IF args.use_search /\ args.page_size.some THEN {"pageSize"} ELSE {})
                \cup (IF args.use_search /\ args.page_token.some THEN {"pageToken"} ELSE {})
                \cup (IF args.validate_only THEN {"validateOnly"} ELSE {})
                \cup (IF args.summary_row_setting.some THEN {"summaryRowSetting"} ELSE {})
                \cup (IF args.use_search /\ args.return_total_results_count
                      THEN {"returnTotalResultsCount"} ELSE {})
    IN  Value_Object(
            [key \in keys |->
                CASE key = "customerId" -> Value_String(args.customer_id)
                  [] key = "query" -> Value_String(args.query)
                  [] key = "pageSize" -> Value_Number(args.page_size.val)
                  [] key = "pageToken" -> Value_String(args.page_token.val)
                  [] key = "summaryRowSetting" -> Value_String(args.summary_row_setting.val)
                  [] OTHER -> Value_Bool(TRUE)])

\* Option<&Value>::and_then(|v| v.as_array())
and_then_as_array(o) == IF o.some /\ o.val.t = "array" THEN Some(o.val.a) ELSE None

\* The rows of one message: json.get("results").and_then(|v| v.as_array()),
\* and no row if that is None.
results_of(json) == unwrap_or(and_then_as_array(get(json, "results")), <<>>)

\* The loop over the messages of a stream: what each message adds to the rows
\* (or, with raw, to the chunks).
RECURSIVE collect_rows(_, _, _)
collect_rows(desc, messages, raw) ==
    IF messages = <<>> THEN <<>>
    ELSE (IF raw THEN <<dynamic_to_value(desc, Head(messages)).val>>
          ELSE results_of(dynamic_to_value(desc, Head(messages)).val))
             \o collect_rows(desc, Tail(messages), raw)

\* The end of the lazy loop: the status that ended the stream, or the rows.
lines_of_stream(desc, stream, raw) ==
    IF stream.error.some THEN Err(stream.error.val)
    ELSE Ok(Output_JsonLines(collect_rows(desc, stream.messages, raw)))

\* Mutant of run_search: the unary variant narrows the response to its
\* results whatever the output asked for.
run_search_narrowing(self, pool_, args, outcome, net_) ==
    IF args.use_search
    THEN try(find_method(pool_, SERVICE, SEARCH), net_, LAMBDA method :
         try(dynamic_from_value(InputOf(pool_, method), build_search_request(args)), net_,
             LAMBDA message :
         and_then(unary(self, pool_, method, message, outcome.unary, net_),
             LAMBDA response :
         map(dynamic_to_value(OutputOf(pool_, method), response), LAMBDA json :
             Output_Json(unwrap_or(get(json, "results"), Value_Array(<<>>)))))))
    ELSE try(find_method(pool_, SERVICE, SEARCH_STREAM), net_, LAMBDA method :
         try(dynamic_from_value(InputOf(pool_, method), build_search_request(args)), net_,
             LAMBDA message :
         IF args.jsonl
         THEN and_then(server_streaming_raw(self, pool_, method, message,
                                            outcome.stream, net_),
                  LAMBDA stream : lines_of_stream(OutputOf(pool_, method), stream, args.raw))
         ELSE and_then(server_stream(self, pool_, method, message, outcome.stream, net_),
                  LAMBDA responses :
                  Ok(Output_Json(Value_Array(
                         collect_rows(OutputOf(pool_, method), responses, args.raw)))))))

run_search(self, pool_, args, outcome, net_) ==
    IF args.use_search
    THEN try(find_method(pool_, SERVICE, SEARCH), net_, LAMBDA method :
         try(dynamic_from_value(InputOf(pool_, method), build_search_request(args)), net_,
             LAMBDA message :
         and_then(unary(self, pool_, method, message, outcome.unary, net_),
             LAMBDA response :
         map(dynamic_to_value(OutputOf(pool_, method), response), LAMBDA json :
             IF args.raw THEN Output_Json(json)
             ELSE Output_Json(unwrap_or(get(json, "results"), Value_Array(<<>>)))))))
    ELSE try(find_method(pool_, SERVICE, SEARCH_STREAM), net_, LAMBDA method :
         try(dynamic_from_value(InputOf(pool_, method), build_search_request(args)), net_,
             LAMBDA message :
         IF args.jsonl
         THEN and_then(server_streaming_raw(self, pool_, method, message,
                                            outcome.stream, net_),
                  LAMBDA stream : lines_of_stream(OutputOf(pool_, method), stream, args.raw))
         ELSE and_then(server_stream(self, pool_, method, message, outcome.stream, net_),
                  LAMBDA responses :
                  Ok(Output_Json(Value_Array(
                         collect_rows(OutputOf(pool_, method), responses, args.raw)))))))

\* build_request of mutate.rs
mutate_build_request(args) ==
    LET keys ==
            {"customerId", "mutateOperations"}
                \cup (IF args.partial_failure THEN {"partialFailure"} ELSE {})
                \cup (IF args.validate_only THEN {"validateOnly"} ELSE {})
                \cup (IF args.response_content_type.some
                      THEN {"responseContentType"} ELSE {})
    IN  IF ~args.ops.some THEN Err(<<"-", "-", "o", "p", "s", " ", "r", "e", "q", "u", "i", "r", "e", "d", " ", "u", "n", "l", "e", "s", "s", " ", "-", "-", "b", "o", "d", "y", " ", "p", "r", "o", "v", "i", "d", "e", "d">>)
        ELSE Ok(Value_Object(
                 [key \in keys |->
                     CASE key = "customerId" -> Value_String(args.customer_id)
                       [] key = "mutateOperations" -> args.ops.val
                       [] key = "responseContentType" ->
                            Value_String(args.response_content_type.val)
                       [] OTHER -> Value_Bool(TRUE)]))

\* Mutant of run_mutate: the request is shaped from the options whenever
\* operations are given, a supplied body notwithstanding.
run_mutate_shaping(self, pool_, args, outcome, net_) ==
    try(find_method(pool_, SERVICE, MUTATE), net_, LAMBDA method :
    try(IF args.body.some /\ ~args.ops.some THEN Ok(args.body.val) ELSE mutate_build_request(args), net_,
        LAMBDA body :
    try(dynamic_from_value(InputOf(pool_, method), body), net_, LAMBDA message :
    and_then(unary(self, pool_, method, message, outcome.unary, net_), LAMBDA response :
        dynamic_to_value(OutputOf(pool_, method), response)))))

run_mutate(self, pool_, args, outcome, net_) ==
    try(find_method(pool_, SERVICE, MUTATE), net_, LAMBDA method :
    try(IF args.body.some THEN Ok(args.body.val) ELSE mutate_build_request(args), net_,
        LAMBDA body :
    try(dynamic_from_value(InputOf(pool_, method), body), net_, LAMBDA message :
    and_then(unary(self, pool_, method, message, outcome.unary, net_), LAMBDA response :
        dynamic_to_value(OutputOf(pool_, method), response)))))

(***************************************************************************)
(* main.rs.  The matches are the parsed command line; an argument that was *)
(* not given is None.  What is written to the standard output is a         *)
(* sequence of entries: a JSON value with its layout, or a line of text.   *)
(***************************************************************************)
\* Option::or_else
or_else(a, b) == IF a.some THEN a ELSE b

\* Option::ok_or
ok_or(o, e) == IF o.some THEN Ok(o.val) ELSE Err(e)

\* write_json(value, pretty)
write_json(value, pretty) == <<[kind |-> "json", value |-> value, pretty |-> pretty]>>

\* write_stdout_line(line)
write_stdout_line(line) == <<[kind |-> "line", value |-> line, pretty |-> FALSE]>>

\* The lines of a tree: each service's name, then its methods' names indented.
tree_lines(tree) ==
    concat([i \in 1..Len(tree.services) |->
               write_stdout_line(tree.services[i].name)
                   \o concat([j \in 1..Len(tree.services[i].methods) |->
                                 write_stdout_line(<<" ", " ">> \o tree.services[i].methods[j].name)])])

\* A handler has the value Ok of the lines it wrote, or an Err.
handle_list(tree, matches) ==
    Ok(IF matches.json THEN write_json(tree.services, TRUE) ELSE tree_lines(tree))

\* A line of the description is kept as the pieces format! joins.
handle_describe(pool_, matches) ==
    map(describe_method(pool_, matches.service.val, matches.method.val), LAMBDA description :
        IF matches.json THEN write_json(description, TRUE)
        ELSE write_stdout_line(description.service \o <<" ">> \o description.method)
                 \o write_stdout_line(<<"f", "i", "e", "l", "d", "s", ":">>)
                 \o concat([k \in 1..Len(description.fields) |->
                               write_stdout_line(<<" ", " ", description.fields[k].json_name,
                                                   " ", "(", description.fields[k].kind,
                                                   ")">>)]))

handle_tree(tree, matches) ==
    Ok(IF matches.json THEN write_json(tree, TRUE)
       ELSE write_stdout_line(<<"a", "p", "i", "_", "v", "e", "r", "s", "i", "o", "n", ":", " ">> \o tree.api_version) \o tree_lines(tree))

write_gaql_output(output, pretty) ==
    IF output.kind = "Json" THEN write_json(output.value, pretty)
    ELSE concat([i \in 1..Len(output.lines) |-> write_json(output.lines[i], FALSE)])

read_customer_id(matches, env) ==
    map(ok_or(or_else(matches.customer_id, env.GOOGLE_ADS_CUSTOMER_ID),
              <<"-", "-", "c", "u", "s", "t", "o", "m", "e", "r", "-", "i", "d", " ", "o", "r", " ", "G", "O", "O", "G", "L", "E", "_", "A", "D", "S", "_", "C", "U", "S", "T", "O", "M", "E", "R", "_", "I", "D", " ", "r", "e", "q", "u", "i", "r", "e", "d">>),
        normalize_customer_id)

\* Option<String>::map(normalize_customer_id)
normalized_id(value) == IF value.some THEN Some(normalize_customer_id(value.val)) ELSE None

load_config(matches, env) ==
    map(ok_or(or_else(matches.developer_token, env.GOOGLE_ADS_DEVELOPER_TOKEN),
              <<"G", "O", "O", "G", "L", "E", "_", "A", "D", "S", "_", "D", "E", "V", "E", "L", "O", "P", "E", "R", "_", "T", "O", "K", "E", "N", " ", "m", "i", "s", "s", "i", "n", "g">>),
        LAMBDA developer_token :
        [developer_token |-> developer_token,
         endpoint |-> unwrap_or(or_else(matches.endpoint, env.GOOGLE_ADS_ENDPOINT),
                                <<"h", "t", "t", "p", "s", ":", "/", "/", "g", "o", "o", "g", "l", "e", "a", "d", "s", ".", "g", "o", "o", "g", "l", "e", "a", "p", "i", "s", ".", "c", "o", "m">>),
         login_customer_id |-> normalized_id(or_else(matches.login_customer_id,
                                                     env.GOOGLE_ADS_LOGIN_CUSTOMER_ID)),
         access_token |-> or_else(matches.access_token, env.GOOGLE_ADS_ACCESS_TOKEN),
         client_id |-> or_else(matches.client_id, env.GOOGLE_ADS_CLIENT_ID),
         client_secret |-> or_else(matches.client_secret, env.GOOGLE_ADS_CLIENT_SECRET),
         refresh_token |-> or_else(matches.refresh_token, env.GOOGLE_ADS_REFRESH_TOKEN)])

\* What a branch of run() comes to, if not an error: it returns having
\* written lines, or it goes on reading the stream it opened.
Done(lines) == [lines |-> lines, stream |-> None]

Streaming(stream, output) ==
    [lines |-> <<>>, stream |-> Some([stream |-> stream, output |-> output])]

\* Option<&String>::map(read_json_input).transpose()
read_optional_json(raw) ==
    IF raw.some THEN map(read_json_input(raw.val), Some) ELSE Ok(None)

\* Value::Array of dynamic_to_value of every response
values_of(desc, responses) ==
    Value_Array([i \in 1..Len(responses) |-> dynamic_to_value(desc, responses[i]).val])

\* The gaql branch of run().
run_gaql(matches, sub, env, self, pool_, outcome, net_) ==
    try(read_customer_id(sub, env), net_, LAMBDA customer_id :
    and_then(run_search(self, pool_,
                        [customer_id |-> customer_id,
                         query |-> sub.query,
                         use_search |-> sub.use_search,
                         page_size |-> sub.page_size,
                         page_token |-> sub.page_token,
                         validate_only |-> sub.validate_only,
                         summary_row_setting |-> sub.summary_row_setting,
                         return_total_results_count |-> sub.return_total_results_count,
                         raw |-> matches.raw,
                         jsonl |-> matches.jsonl],
                        outcome, net_),
        LAMBDA output : Ok(Done(write_gaql_output(output, matches.pretty)))))

\* The mutate branch of run().
run_mutate_command(matches, sub, env, self, pool_, outcome, net_) ==
    try(read_customer_id(sub, env), net_, LAMBDA customer_id :
    try(read_optional_json(sub.body), net_, LAMBDA body :
    try(read_optional_json(sub.ops), net_, LAMBDA ops :
    and_then(run_mutate(self, pool_,
                        [customer_id |-> customer_id,
                         ops |-> ops,
                         body |-> body,
                         partial_failure |-> sub.partial_failure,
                         validate_only |-> sub.validate_only,
                         response_content_type |-> sub.response_content_type],
                        outcome, net_),
        LAMBDA output : Ok(Done(write_json(output, matches.pretty)))))))

MethodOf(pool_, method) == pool_[method.service].methods[method.method]

\* The raw branch of run(), up to the end of a unary or of an eager call, or
\* up to the opening of the stream of a lazy call.
run_raw(matches, sub, self, pool_, outcome, net_) ==
    try(find_method(pool_, sub.service.val, sub.method.val), net_, LAMBDA method_desc :
    IF MethodOf(pool_, method_desc).client_streaming
    THEN [result |-> Err(<<"c", "l", "i", "e", "n", "t", " ", "s", "t", "r", "e", "a", "m", "i", "n", "g", " ", "i", "s", " ", "n", "o", "t", " ", "s", "u", "p", "p", "o", "r", "t", "e", "d">>), net |-> net_]
    ELSE
    try(read_json_input(sub.body.val), net_, LAMBDA body_value :
    try(dynamic_from_value(InputOf(pool_, method_desc), body_value), net_, LAMBDA request :
    IF MethodOf(pool_, method_desc).server_streaming
    THEN IF matches.jsonl
         THEN and_then(server_streaming_raw(self, pool_, method_desc, request,
                                            outcome.stream, net_),
                  LAMBDA stream : Ok(Streaming(stream, OutputOf(pool_, method_desc))))
         ELSE and_then(server_stream(self, pool_, method_desc, request,
                                     outcome.stream, net_),
                  LAMBDA responses :
                  Ok(Done(write_json(values_of(OutputOf(pool_, method_desc), responses),
                                     matches.pretty))))
    ELSE and_then(unary(self, pool_, method_desc, request, outcome.unary, net_),
             LAMBDA response :
             map(dynamic_to_value(OutputOf(pool_, method_desc), response), LAMBDA json :
                 Done(write_json(json, matches.pretty)))))))

(***************************************************************************)
(* State.                                                                  *)
(***************************************************************************)
VARIABLES
    pool,    \* the descriptor pool (load_pool)
    op,      \* the last operation applied
    args,    \* its arguments
    ret,     \* its result
    trees,   \* every tree build_tree has returned for this pool
    buf,     \* the byte buffer between the codec and the transport
    net,     \* the network operations performed so far, in order
    cli,     \* the command line and the environment of a run
    pc,      \* the position of run()
    locals,  \* the local variables of run()
    client,  \* the AdsClient, once connected
    stdout   \* what has been written to the standard output, in order

runVars == <<cli, pc, locals, client, stdout>>

vars == <<pool, op, args, ret, trees, buf, net, runVars>>

\* No run of the command line is in progress.
NoRun ==
    /\ cli = <<>>
    /\ pc = "none"
    /\ locals = <<>>
    /\ client = None
    /\ stdout = <<>>

(***************************************************************************)
(* RegistrySpec: find_method, describe_method and build_tree applied to    *)
(* any pool of the catalogue and to names in every form.  As in run(), the *)
(* tree is built first and a name is resolved against the pool after it.   *)
(***************************************************************************)
ServiceForms(service) == {service.name, to_kebab(service.name), full_name(service)}

method_full_name(service, m) == full_name(service) \o <<".">> \o m.name

MethodForms(service, m) == {m.name, to_kebab(m.name), method_full_name(service, m)}

\* Service names given on the command line: every form of the pool's services,
\* the empty string, a proper prefix, a proper substring, an unknown name and a
\* differently punctuated spelling.
ServiceInputs(pool_) ==
    UNION {ServiceForms(pool_[i]) : i \in 1..Len(pool_)}
        \cup {<<>>, <<"A", "d">>, <<"S", "e", "r", "v", "i", "c", "e">>, <<"n", "o", "p", "e">>, <<"A", "D", "_", "S", "E", "R", "V", "I", "C", "E">>}

MethodInputs(pool_) ==
    UNION {UNION {MethodForms(pool_[i], pool_[i].methods[j]) :
                     j \in 1..Len(pool_[i].methods)} : i \in 1..Len(pool_)}
        \cup {<<>>, <<"S", "e", "a", "r", "c", "h">>, <<"s", "e", "a", "r", "c", "h", "_", "s", "t", "r", "e", "a", "m">>, <<"n", "o", "p", "e">>}

InitRegistry ==
    /\ pool \in Pools
    /\ op = "none"
    /\ args = <<>>
    /\ ret = <<>>
    /\ trees = {}
    /\ buf = <<>>
    /\ net = <<>>
    /\ NoRun

FindMethod ==
    \E service \in ServiceInputs(pool), method \in MethodInputs(pool) :
        /\ op = "build_tree"
        /\ op' = "find_method"
        /\ args' = [service |-> service, method |-> method]
        /\ ret' = find_method(pool, service, method)
        /\ UNCHANGED <<pool, trees, buf, net, runVars>>

DescribeMethod ==
    \E service \in ServiceInputs(pool), method \in MethodInputs(pool) :
        /\ op = "build_tree"
        /\ op' = "describe_method"
        /\ args' = [service |-> service, method |-> method]
        /\ ret' = describe_method(pool, service, method)
        /\ UNCHANGED <<pool, trees, buf, net, runVars>>

BuildTree ==
    /\ op \in {"none", "build_tree"}
    /\ op' = "build_tree"
    /\ args' = <<>>
    /\ ret' = build_tree(pool)
    /\ trees' = trees \cup {build_tree(pool)}
    /\ UNCHANGED <<pool, buf, net, runVars>>

NextRegistry == FindMethod \/ DescribeMethod \/ BuildTree

RegistrySpec == InitRegistry /\ [][NextRegistry]_vars

(***************************************************************************)
(* CodecSpec: the encoder applied to any message of the Response type, or  *)
(* a frame of any bytes arriving from the transport, and then the decoder  *)
(* bound to the Response type applied to the buffer.                       *)
(***************************************************************************)
SeqsUpTo(S, n) == UNION {[1..k -> S] : k \in 0..n}

\* Values of an int32 field: the default, and a value whose varint has two bytes.
IntValues == {0, 200}

\* Numbers of the enum Setting.
EnumValues == {0, 1, 2}

Rows == [id : IntValues]

ResponseMessages ==
    [results : SeqsUpTo(Rows, MaxList),
     total : IntValues,
     setting : EnumValues,
     ids : SeqsUpTo(IntValues, MaxList),
     row : {None} \cup {Some(r) : r \in Rows}]

\* Bytes of a frame: keys of known and unknown fields, a length, a tag of
\* field number 0 and a varint continuation byte.
FrameBytes == {0, 1, 10, 16, 48, 128}

Frames == SeqsUpTo(FrameBytes, MaxBuf)

InitCodec ==
    /\ pool = <<>>
    /\ op = "none"
    /\ args = <<>>
    /\ ret = <<>>
    /\ trees = {}
    /\ buf = <<>>
    /\ net = <<>>
    /\ NoRun

Encode ==
    \E item \in ResponseMessages :
        LET r == DynamicEncoder_encode("Response", item, buf)
        IN  /\ op = "none"
            /\ op' = "encode"
            /\ args' = [item |-> Some(item), src |-> <<>>]
            /\ ret' = r.result
            /\ buf' = r.dst
            /\ UNCHANGED <<pool, trees, net, runVars>>

Receive ==
    \E frame \in Frames :
        /\ op = "none"
        /\ op' = "receive"
        /\ args' = [item |-> None, src |-> <<>>]
        /\ ret' = <<>>
        /\ buf' = frame
        /\ UNCHANGED <<pool, trees, net, runVars>>

Decode ==
    LET r == DynamicDecoder_decode("Response", buf)
    IN  /\ op \in {"encode", "receive"}
        /\ op' = "decode"
        /\ args' = [args EXCEPT !.src = buf]
        /\ ret' = r.result
        /\ buf' = r.src
        /\ UNCHANGED <<pool, trees, net, runVars>>

NextCodec == Encode \/ Receive \/ Decode

CodecSpec == InitCodec /\ [][NextCodec]_vars

(***************************************************************************)
(* ClientSpec: a connected AdsClient of any configuration, on which unary, *)
(* server_stream and server_streaming_raw are called.                      *)
(***************************************************************************)
\* Largest number of requests handed to the transport.
MaxCalls == 2

\* Largest number of messages a stream delivers.
MaxStream == 2

DeveloperTokens == {<<"d", "e", "v">>, <<"d", "\n", "v">>}

AccessTokens == {<<"t", "o", "k">>, <<" ", "t", "o", "k", "\n">>, <<"t", "\n", "k">>, <<"\t", "t", "o", "k", " ">>}

LoginCustomerIds == {None, Some(<<"1", "2", "3">>), Some(<<"1", "\n", "2">>)}

\* Duration::from_secs
Duration_from_secs(secs) == [secs |-> secs]

Timeouts == {None, Some(Duration_from_secs(30))}

AdsClients ==
    [channel : {<<"h", "t", "t", "p", "s", ":", "/", "/", "g", "o", "o", "g", "l", "e", "a", "d", "s", ".", "g", "o", "o", "g", "l", "e", "a", "p", "i", "s", ".", "c", "o", "m">>},
     developer_token : DeveloperTokens,
     login_customer_id : LoginCustomerIds,
     access_token : AccessTokens,
     timeout : Timeouts]

ClientPool == <<AdServiceV2>>

MethodDescriptors(pool_) ==
    UNION {{[service |-> i, method |-> j] : j \in 1..Len(pool_[i].methods)} :
              i \in 1..Len(pool_)}

RequestMessages ==
    {default_message("Request"),
     [default_message("Request") EXCEPT !.customer_id = <<"1", "2", "3">>]}

ResponseSamples ==
    {default_message("Response"),
     [default_message("Response") EXCEPT !.results = <<[id |-> 200]>>, !.total = 200]}

\* The statuses a call can end with.
Statuses == {<<"s", "t", "a", "t", "u", "s", ":", " ", "U", "n", "a", "v", "a", "i", "l", "a", "b", "l", "e">>, <<"s", "t", "a", "t", "u", "s", ":", " ", "D", "e", "a", "d", "l", "i", "n", "e", "E", "x", "c", "e", "e", "d", "e", "d">>}

UnaryOutcomes == {Ok(r) : r \in ResponseSamples} \cup {Err(e) : e \in Statuses}

\* What a server-streaming call comes to: [open, messages, error].
StreamOutcomesOf(samples) ==
    {o \in [open : {None, Some(<<"s", "t", "a", "t", "u", "s", ":", " ", "U", "n", "a", "v", "a", "i", "l", "a", "b", "l", "e">>)},
            messages : SeqsUpTo(samples, MaxStream),
            error : {None, Some(<<"s", "t", "a", "t", "u", "s", ":", " ", "D", "e", "a", "d", "l", "i", "n", "e", "E", "x", "c", "e", "e", "d", "e", "d">>)}] :
        o.open.some => (o.messages = <<>> /\ ~o.error.some)}

StreamOutcomes == StreamOutcomesOf({default_message("Response")})

InitClient ==
    /\ pool = ClientPool
    /\ op = "connect"
    /\ args = <<>>
    /\ ret = <<>>
    /\ trees = {}
    /\ buf = <<>>
    /\ net = <<>>
    /\ cli = <<>>
    /\ pc = "none"
    /\ locals = <<>>
    /\ client \in {Some(c) : c \in AdsClients}
    /\ stdout = <<>>

Unary ==
    \E method \in MethodDescriptors(pool), message \in RequestMessages,
       outcome \in UnaryOutcomes :
        LET r == unary(client.val, pool, method, message, outcome, net)
        IN  /\ Len(net) < MaxCalls
            /\ op' = "unary"
            /\ args' = [method |-> method, message |-> message]
            /\ ret' = r.result
            /\ net' = r.net
            /\ UNCHANGED <<pool, trees, buf, runVars>>

ServerStream ==
    \E method \in MethodDescriptors(pool), message \in RequestMessages,
       outcome \in StreamOutcomes :
        LET r == server_stream(client.val, pool, method, message, outcome, net)
        IN  /\ Len(net) < MaxCalls
            /\ op' = "server_stream"
            /\ args' = [method |-> method, message |-> message]
            /\ ret' = r.result
            /\ net' = r.net
            /\ UNCHANGED <<pool, trees, buf, runVars>>

ServerStreamingRaw ==
    \E method \in MethodDescriptors(pool), message \in RequestMessages,
       outcome \in StreamOutcomes :
        LET r == server_streaming_raw(client.val, pool, method, message, outcome, net)
        IN  /\ Len(net) < MaxCalls
            /\ op' = "server_streaming_raw"
            /\ args' = [method |-> method, message |-> message]
            /\ ret' = r.result
            /\ net' = r.net
            /\ UNCHANGED <<pool, trees, buf, runVars>>

NextClient == Unary \/ ServerStream \/ ServerStreamingRaw

ClientSpec == InitClient /\ [][NextClient]_vars

(***************************************************************************)
(* Spec: one run of the command line, run() of main.rs, from the parsed    *)
(* arguments to the result.  The steps are the stretches of run() between  *)
(* its awaits; the answers of the token endpoint, of the connection        *)
(* attempt and of the peer are chosen at the step that waits for them.     *)
(***************************************************************************)
\* An Option<i64> or Option<u64> that is None.
NoneInt == [some |-> FALSE, val |-> 0]

\* A JSON argument given in line, one that does not parse, one naming a file
\* that is missing and one naming a file that holds the value.
Inline(value) == [at |-> FALSE, exists |-> FALSE, parsed |-> Some(value)]

InvalidJson == [at |-> FALSE, exists |-> FALSE, parsed |-> None]

MissingFile == [at |-> TRUE, exists |-> FALSE, parsed |-> None]

FileOf(value) == [at |-> TRUE, exists |-> TRUE, parsed |-> Some(value)]

SearchBody ==
    Value_Object(insert(insert(<<>>, "customerId", Value_String(<<"1", "2", "3">>)),
                        "query", Value_String(<<"q">>)))

UnknownFieldBody == Value_Object(insert(<<>>, "bogus", Value_Bool(TRUE)))

OperationsValue == Value_Array(<<Value_Object(insert(<<>>, "id", Value_Number(200)))>>)

MutateBody ==
    Value_Object(insert(insert(<<>>, "customer_id", Value_String(<<"1", "2", "3">>)),
                        "mutateOperations", OperationsValue))

\* The matches of a subcommand with no argument given.
NoSub ==
    [command |-> "list", json |-> FALSE, service |-> None, method |-> None,
     body |-> None, ops |-> None, customer_id |-> None, query |-> <<>>,
     use_search |-> FALSE, page_size |-> NoneInt, page_token |-> None,
     validate_only |-> FALSE, summary_row_setting |-> None,
     return_total_results_count |-> FALSE, partial_failure |-> FALSE,
     response_content_type |-> None]

IntrospectionCommands ==
    {[NoSub EXCEPT !.command = c, !.json = j] : c \in {"list", "tree"}, j \in BOOLEAN}
        \cup {[NoSub EXCEPT !.command = "describe", !.json = j,
                            !.service = Some(n[1]), !.method = Some(n[2])] :
                 j \in BOOLEAN,
                 n \in {<<<<"a", "d", "d", "-", "s", "e", "r", "v", "i", "c", "e">>, <<"u", "p", "l", "o", "a", "d">>>>, <<<<"A", "d", "d", "S", "e", "r", "v", "i", "c", "e">>, <<"n", "o", "p", "e">>>>}}

GaqlSearch0 ==
    [NoSub EXCEPT !.command = "gaql", !.customer_id = Some(<<"1", "2", "3", "-", "4", "5", "6">>), !.query = <<"q">>]

GaqlCommands ==
    {GaqlSearch0,
     [GaqlSearch0 EXCEPT !.use_search = TRUE],
     [GaqlSearch0 EXCEPT !.use_search = TRUE, !.page_size = [some |-> TRUE, val |-> 10],
                         !.page_token = Some(<<"p", "t">>), !.validate_only = TRUE,
                         !.summary_row_setting = Some(<<"N", "O", "_", "S", "U", "M", "M", "A", "R", "Y", "_", "R", "O", "W">>),
                         !.return_total_results_count = TRUE],
     [GaqlSearch0 EXCEPT !.page_size = [some |-> TRUE, val |-> 10],
                         !.page_token = Some(<<"p", "t">>),
                         !.summary_row_setting = Some(<<"S", "U", "M", "M", "A", "R", "Y", "_", "R", "O", "W", "_", "O", "N", "L", "Y">>),
                         !.return_total_results_count = TRUE],
     [GaqlSearch0 EXCEPT !.use_search = TRUE, !.summary_row_setting = Some(<<"B", "O", "G", "U", "S">>)],
     [GaqlSearch0 EXCEPT !.customer_id = None]}

Mutate0 == [NoSub EXCEPT !.command = "mutate", !.customer_id = Some(<<"1", "2", "3", "-", "4", "5", "6">>)]

MutateCommands ==
    {[Mutate0 EXCEPT !.body = Some(Inline(MutateBody))],
     [Mutate0 EXCEPT !.ops = Some(FileOf(OperationsValue)), !.partial_failure = TRUE,
                     !.validate_only = TRUE,
                     !.response_content_type = Some(<<"R", "E", "S", "O", "U", "R", "C", "E", "_", "N", "A", "M", "E", "_", "O", "N", "L", "Y">>)],
     Mutate0,
     [Mutate0 EXCEPT !.body = Some(InvalidJson)],
     [Mutate0 EXCEPT !.ops = Some(Inline(Value_String(<<"o", "p">>)))],
     [Mutate0 EXCEPT !.body = Some(Inline(MutateBody)), !.customer_id = None]}

RawCommands ==
    {[NoSub EXCEPT !.command = "raw", !.service = Some(n[1]), !.method = Some(n[2]),
                   !.body = Some(n[3])] :
        n \in {<<<<"A", "d", "d", "S", "e", "r", "v", "i", "c", "e">>, <<"U", "p", "l", "o", "a", "d">>, Inline(SearchBody)>>,
               <<<<"a", "d", "d", "-", "s", "e", "r", "v", "i", "c", "e">>, <<"u", "p", "l", "o", "a", "d">>, InvalidJson>>,
               <<<<"g", "o", "o", "g", "l", "e", "-", "a", "d", "s", "-", "s", "e", "r", "v", "i", "c", "e">>, <<"s", "e", "a", "r", "c", "h", "-", "s", "t", "r", "e", "a", "m">>, Inline(SearchBody)>>,
               <<<<"G", "o", "o", "g", "l", "e", "A", "d", "s", "S", "e", "r", "v", "i", "c", "e">>, <<"S", "e", "a", "r", "c", "h">>, FileOf(SearchBody)>>,
               <<<<"g", "o", "o", "g", "l", "e", "-", "a", "d", "s", "-", "s", "e", "r", "v", "i", "c", "e">>, <<"s", "e", "a", "r", "c", "h">>, InvalidJson>>,
               <<<<"g", "o", "o", "g", "l", "e", "-", "a", "d", "s", "-", "s", "e", "r", "v", "i", "c", "e">>, <<"s", "e", "a", "r", "c", "h">>, Inline(UnknownFieldBody)>>,
               <<<<"g", "o", "o", "g", "l", "e", "-", "a", "d", "s", "-", "s", "e", "r", "v", "i", "c", "e">>, <<"s", "e", "a", "r", "c", "h">>, MissingFile>>,
               <<<<"n", "o", "p", "e">>, <<"s", "e", "a", "r", "c", "h">>, Inline(SearchBody)>>,
               <<<<"g", "o", "o", "g", "l", "e", "-", "a", "d", "s", "-", "s", "e", "r", "v", "i", "c", "e">>, <<"n", "o", "p", "e">>, Inline(SearchBody)>>}}

Commands == IntrospectionCommands \cup GaqlCommands \cup MutateCommands \cup RawCommands

\* The global arguments with none given, and the environment with none set.
NoGlobals ==
    [command |-> "list", pretty |-> FALSE, jsonl |-> FALSE, raw |-> FALSE,
     timeout |-> NoneInt, developer_token |-> None, access_token |-> None,
     client_id |-> None, client_secret |-> None, refresh_token |-> None,
     login_customer_id |-> None, endpoint |-> None]

NoEnv ==
    [GOOGLE_ADS_DEVELOPER_TOKEN |-> None, GOOGLE_ADS_ACCESS_TOKEN |-> None,
     GOOGLE_ADS_CLIENT_ID |-> None, GOOGLE_ADS_CLIENT_SECRET |-> None,
     GOOGLE_ADS_REFRESH_TOKEN |-> None, GOOGLE_ADS_LOGIN_CUSTOMER_ID |-> None,
     GOOGLE_ADS_ENDPOINT |-> None, GOOGLE_ADS_CUSTOMER_ID |-> None]

\* The ways the credentials, the endpoint and the timeout are given.
Settings ==
    {[matches |-> [NoGlobals EXCEPT !.developer_token = Some(<<"d", "e", "v">>),
                                    !.access_token = Some(<<" ", "t", "o", "k", "\n">>),
                                    !.timeout = [some |-> TRUE, val |-> 30]],
      env |-> [NoEnv EXCEPT !.GOOGLE_ADS_DEVELOPER_TOKEN = Some(<<"e", "n", "v">>),
                            !.GOOGLE_ADS_ACCESS_TOKEN = Some(<<"e", "n", "v", "t", "o", "k">>),
                            !.GOOGLE_ADS_CUSTOMER_ID = Some(<<"7", "8", "9">>)]],
     [matches |-> [NoGlobals EXCEPT !.login_customer_id = Some(<<"1", "2", "3", "-", "4", "5", "6">>)],
      env |-> [NoEnv EXCEPT !.GOOGLE_ADS_DEVELOPER_TOKEN = Some(<<"d", "e", "v">>),
                            !.GOOGLE_ADS_ACCESS_TOKEN = Some(<<"t", "o", "k">>),
                            !.GOOGLE_ADS_ENDPOINT = Some(<<"l", "o", "c", "a", "l", "h", "o", "s", "t", ":", "8", "0", "8", "0">>)]],
     [matches |-> [NoGlobals EXCEPT !.access_token = Some(<<"t", "o", "k">>)],
      env |-> NoEnv],
     [matches |-> [NoGlobals EXCEPT !.developer_token = Some(<<"d", "e", "v">>)],
      env |-> [NoEnv EXCEPT !.GOOGLE_ADS_CLIENT_ID = Some(<<"i", "d">>),
                            !.GOOGLE_ADS_CLIENT_SECRET = Some(<<"s", "e", "c", "r", "e", "t">>),
                            !.GOOGLE_ADS_REFRESH_TOKEN = Some(<<"r", "e", "f", "r", "e", "s", "h">>)]],
     [matches |-> [NoGlobals EXCEPT !.developer_token = Some(<<"d", "e", "v">>),
                                    !.access_token = Some(<<" ", " ">>),
                                    !.client_id = Some(<<"i", "d">>)],
      env |-> NoEnv],
     [matches |-> [NoGlobals EXCEPT !.developer_token = Some(<<"d", "\n", "v">>),
                                    !.access_token = Some(<<"t", "o", "k">>)],
      env |-> NoEnv],
     [matches |-> [NoGlobals EXCEPT !.developer_token = Some(<<"d", "e", "v">>),
                                    !.access_token = Some(<<"t", "o", "k">>),
                                    !.endpoint = Some(<<"b", "a", "d", " ", "u", "r", "i">>)],
      env |-> NoEnv]}

Clis ==
    {[matches |-> [s.matches EXCEPT !.command = c.command, !.pretty = f.pretty,
                                    !.jsonl = f.jsonl, !.raw = f.raw],
      sub |-> c,
      env |-> s.env] :
        s \in Settings, c \in Commands, f \in [pretty : BOOLEAN, jsonl : BOOLEAN, raw : BOOLEAN]}

\* A pool with the service of gaql search and mutate and a client-streaming
\* method, and a pool without that service.
RunPools == {<<GoogleAdsService, AddServiceV1>>, <<AddServiceV1>>}

OAuthOutcomes ==
    [kind : {"send_error", "read_error", "http_error", "decode_error", "token"},
     status : {<<"4", "0", "1", " ", "U", "n", "a", "u", "t", "h", "o", "r", "i", "z", "e", "d">>}, body : {<<"d", "e", "n", "i", "e", "d">>}, access_token : {<<"o", "t", "o", "k">>}]

ConnectOutcomes == {"connected", "refused"}

\* What the peer answers: to a unary call, or to a server-streaming call.
\* A run keeps the answer of its call in args.
UnaryPeers ==
    {[unary |-> u, stream |-> [open |-> None, messages |-> <<>>, error |-> None]] :
        u \in UnaryOutcomes}

StreamPeers ==
    {[unary |-> Err(<<"s", "t", "a", "t", "u", "s", ":", " ", "U", "n", "a", "v", "a", "i", "l", "a", "b", "l", "e">>), stream |-> o] :
        o \in StreamOutcomesOf(ResponseSamples)}

NetworkCommands == {"gaql", "mutate", "raw"}

Init ==
    /\ pool \in RunPools
    /\ op = "run"
    /\ args = <<>>
    /\ ret = <<>>
    /\ trees = {}
    /\ buf = <<>>
    /\ net = <<>>
    /\ cli \in Clis
    /\ pc = "start"
    /\ locals = <<>>
    /\ client = None
    /\ stdout = <<>>

\* run() returns result, having written lines.
Return(result, lines) ==
    /\ pc' = "done"
    /\ ret' = result
    /\ stdout' = stdout \o lines

\* A branch of run() has come to r, which is [result, net].
Complete(r) ==
    /\ net' = r.net
    /\ IF ~r.result.ok
       THEN Return(Err(r.result.err), <<>>) /\ UNCHANGED locals
       ELSE IF r.result.val.stream.some
       THEN /\ pc' = "stream"
            /\ locals' = [locals EXCEPT !.stream = r.result.val.stream.val]
            /\ UNCHANGED <<ret, stdout>>
       ELSE Return(Ok(<<>>), r.result.val.lines) /\ UNCHANGED locals

HandleList ==
    /\ pc = "start"
    /\ cli.matches.command = "list"
    /\ Complete([result |-> map(handle_list(build_tree(pool), cli.sub), Done), net |-> net])
    /\ UNCHANGED <<pool, op, args, trees, buf, cli, client>>

HandleDescribe ==
    /\ pc = "start"
    /\ cli.matches.command = "describe"
    /\ Complete([result |-> map(handle_describe(pool, cli.sub), Done), net |-> net])
    /\ UNCHANGED <<pool, op, args, trees, buf, cli, client>>

HandleTree ==
    /\ pc = "start"
    /\ cli.matches.command = "tree"
    /\ Complete([result |-> map(handle_tree(build_tree(pool), cli.sub), Done), net |-> net])
    /\ UNCHANGED <<pool, op, args, trees, buf, cli, client>>

\* A step of run() that has the Result r and goes on at the position next
\* with the local variables F makes of the value.
Go(r, next, F(_)) ==
    IF r.ok
    THEN /\ pc' = next
         /\ locals' = F(r.val)
         /\ UNCHANGED <<ret, stdout>>
    ELSE /\ Return(Err(r.err), <<>>)
         /\ UNCHANGED locals

\* Mutant of LoadConfig: the configuration is loaded whatever the command.
LoadConfig_before_introspection ==
    /\ pc = "start"
    /\ Go(load_config(cli.matches, cli.env), "resolve_access_token", LAMBDA config :
          [config |-> config, access_token |-> <<>>, stream |-> <<>>, delivered |-> 0])
    /\ UNCHANGED <<pool, op, args, trees, buf, net, cli, client>>

LoadConfig ==
    /\ pc = "start"
    /\ cli.matches.command \in NetworkCommands
    /\ Go(load_config(cli.matches, cli.env), "resolve_access_token", LAMBDA config :
          [config |-> config, access_token |-> <<>>, stream |-> <<>>, delivered |-> 0])
    /\ UNCHANGED <<pool, op, args, trees, buf, net, cli, client>>

\* The call goes on at the position next with the network as e left it.
GoOn(e, next, F(_)) ==
    /\ net' = e.net
    /\ Go(e.result, next, F)

ResolveAccessToken ==
    \E outcome \in OAuthOutcomes :
        /\ pc = "resolve_access_token"
        /\ GoOn(resolve_access_token([access_token |-> locals.config.access_token,
                                      client_id |-> locals.config.client_id,
                                      client_secret |-> locals.config.client_secret,
                                      refresh_token |-> locals.config.refresh_token],
                                     outcome, net),
                "connect", LAMBDA access_token : [locals EXCEPT !.access_token = access_token])
        /\ UNCHANGED <<pool, op, args, trees, buf, cli, client>>

\* Option<u64>::map(Duration::from_secs)
timeout_of(matches) ==
    IF matches.timeout.some THEN Some(Duration_from_secs(matches.timeout.val)) ELSE None

\* The client is kept, or the error of connect is returned.
Connected(e) ==
    /\ net' = e.net
    /\ IF e.result.ok
       THEN /\ pc' = "dispatch"
            /\ client' = Some(e.result.val)
            /\ UNCHANGED <<ret, stdout>>
       ELSE /\ Return(Err(e.result.err), <<>>)
            /\ UNCHANGED client

Connect ==
    \E outcome \in ConnectOutcomes :
        /\ pc = "connect"
        /\ Connected(connect(locals.config.endpoint, locals.config.developer_token,
                             locals.config.login_customer_id, locals.access_token,
                             timeout_of(cli.matches), outcome, net))
        /\ UNCHANGED <<pool, op, args, trees, buf, cli, locals>>

Gaql ==
    \E outcome \in IF cli.sub.use_search THEN UnaryPeers ELSE StreamPeers :
        /\ pc = "dispatch"
        /\ cli.matches.command = "gaql"
        /\ Complete(run_gaql(cli.matches, cli.sub, cli.env, client.val, pool, outcome, net))
        /\ args' = outcome
        /\ UNCHANGED <<pool, op, trees, buf, cli, client>>

Mutate ==
    \E outcome \in UnaryPeers :
        /\ pc = "dispatch"
        /\ cli.matches.command = "mutate"
        /\ Complete(run_mutate_command(cli.matches, cli.sub, cli.env, client.val, pool,
                                       outcome, net))
        /\ args' = outcome
        /\ UNCHANGED <<pool, op, trees, buf, cli, client>>

Raw ==
    \E outcome \in UnaryPeers \cup StreamPeers :
        /\ pc = "dispatch"
        /\ cli.matches.command = "raw"
        /\ Complete(run_raw(cli.matches, cli.sub, client.val, pool, outcome, net))
        /\ args' = outcome
        /\ UNCHANGED <<pool, op, trees, buf, cli, client>>

\* What one turn of the loop over a lazy stream does with what
\* stream.message() returned: a message is written as a line when it arrives,
\* the end or a status ends the run.
Turn(msg, output) ==
    IF ~msg.ok THEN Return(Err(msg.err), <<>>) /\ UNCHANGED locals
    ELSE IF ~msg.val.some THEN Return(Ok(<<>>), <<>>) /\ UNCHANGED locals
    ELSE /\ stdout' = stdout \o write_json(dynamic_to_value(output, msg.val.val).val, FALSE)
         /\ locals' = [locals EXCEPT !.delivered = @ + 1]
         /\ UNCHANGED <<pc, ret>>

StreamMessage ==
    /\ pc = "stream"
    /\ Turn(stream_message(locals.stream.stream, locals.delivered + 1), locals.stream.output)
    /\ UNCHANGED <<pool, op, args, trees, buf, net, cli, client>>

Next ==
    \/ HandleList
    \/ HandleDescribe
    \/ HandleTree
    \/ LoadConfig
    \/ ResolveAccessToken
    \/ Connect
    \/ Gaql
    \/ Mutate
    \/ Raw
    \/ StreamMessage

Spec == Init /\ [][Next]_vars

(***************************************************************************)
(* The operations of gaql.rs, mutate.rs, auth.rs, client.rs and            *)
(* command_tree.rs called one at a time with arguments drawn from bounded  *)
(* sets: op names the operation, args holds its arguments (and what the    *)
(* peer answered), ret its result and net what it sent.                    *)
(***************************************************************************)
\* An Option<i64> that is Some.
SomeInt(n) == [some |-> TRUE, val |-> n]

\* SearchArgs: every combination of the options build_search_request reads.
SearchArgsSet ==
    [customer_id : {<<"1", "2", "3">>},
     query : {<<"q">>},
     use_search : BOOLEAN,
     page_size : {NoneInt, SomeInt(10)},
     page_token : {None, Some(<<"p", "t">>)},
     validate_only : BOOLEAN,
     summary_row_setting : {None, Some(<<"N", "O", "_", "S", "U", "M", "M", "A", "R", "Y", "_", "R", "O", "W">>), Some(<<"B", "O", "G", "U", "S">>)},
     return_total_results_count : BOOLEAN,
     raw : BOOLEAN,
     jsonl : BOOLEAN]

\* Account identifiers as they are typed.
CustomerIds ==
    {<<"1", "2", "3", "-", "4", "5", "6", "-", "7", "8", "9", "0">>, <<"I", "D", ":", " ", "4", "2">>, <<>>, <<"a", "b", "c">>, <<"1", "2", "3", "4", "5", "6", "7", "8", "9", "0">>, <<"4", "a", "2", "b">>, <<"-", "1", "-">>, <<" ", "1", "2", "\n">>,
     <<"0", "-", "0">>, <<"v", "1", ".", "2">>}

\* Endpoints with and without a scheme.
Endpoints ==
    {<<"h", "t", "t", "p", ":", "/", "/", "h">>, <<"h", "t", "t", "p", "s", ":", "/", "/", "h">>, <<"h">>, <<>>, <<"l", "o", "c", "a", "l", "h", "o", "s", "t", ":", "8", "0", "8", "0">>, <<"H", "T", "T", "P", ":", "/", "/", "h">>, <<"h", "t", "t", "p", "x">>,
     <<"h", "t", "t", "p", "s", ":", "/", "h">>, <<"h", "t", "t", "p", ":", "/", "/">>, <<"f", "t", "p", ":", "/", "/", "h">>, <<" ", "h", "t", "t", "p", "s", ":", "/", "/", "h">>, <<"g", "o", "o", "g", "l", "e", "a", "d", "s", ".", "g", "o", "o", "g", "l", "e", "a", "p", "i", "s", ".", "c", "o", "m">>}

\* Visible services whose names hold a segment close to a version: a bare
\* "v", a "v" followed by a letter, a "v" followed by a digit and a letter,
\* and a version of two digits after the services segment.
BareVService ==
    Service(<<"g", "o", "o", "g", "l", "e", ".", "a", "d", "s", ".", "g", "o", "o", "g", "l", "e", "a", "d", "s", ".", "v", ".", "s", "e", "r", "v", "i", "c", "e", "s">>, <<"A", "d", "S", "e", "r", "v", "i", "c", "e">>,
            <<Method(<<"S", "e", "a", "r", "c", "h", "e", "s">>, FALSE, FALSE)>>)

VxService ==
    Service(<<"g", "o", "o", "g", "l", "e", ".", "a", "d", "s", ".", "g", "o", "o", "g", "l", "e", "a", "d", "s", ".", "v", "x", ".", "s", "e", "r", "v", "i", "c", "e", "s">>, <<"A", "d", "S", "e", "r", "v", "i", "c", "e">>,
            <<Method(<<"S", "e", "a", "r", "c", "h", "e", "s">>, FALSE, FALSE)>>)

V1xService ==
    Service(<<"g", "o", "o", "g", "l", "e", ".", "a", "d", "s", ".", "g", "o", "o", "g", "l", "e", "a", "d", "s", ".", "v", "1", "x", ".", "s", "e", "r", "v", "i", "c", "e", "s">>, <<"A", "d", "S", "e", "r", "v", "i", "c", "e">>,
            <<Method(<<"S", "e", "a", "r", "c", "h", "e", "s">>, FALSE, FALSE)>>)

V10Service ==
    Service(<<"g", "o", "o", "g", "l", "e", ".", "a", "d", "s", ".", "g", "o", "o", "g", "l", "e", "a", "d", "s", ".", "s", "e", "r", "v", "i", "c", "e", "s", ".", "v", "1", "0">>, <<"A", "d", "S", "e", "r", "v", "i", "c", "e">>,
            <<Method(<<"S", "e", "a", "r", "c", "h", "e", "s">>, FALSE, FALSE)>>)

VersionCatalogue ==
    {AdServiceV1, AdServiceV2, CommonAdService, AcmeAdService,
     BareVService, VxService, V1xService, V10Service}

VersionPools ==
    UNION {{p \in [1..n -> VersionCatalogue] :
               \A i, j \in 1..n : i # j => full_name(p[i]) # full_name(p[j])} :
           n \in 0..MaxPool}

InitCall ==
    /\ pool \in RunPools
    /\ op = "none"
    /\ args = <<>>
    /\ ret = <<>>
    /\ trees = {}
    /\ buf = <<>>
    /\ net = <<>>
    /\ NoRun

BuildSearchRequest ==
    \E search_args \in SearchArgsSet :
        /\ op = "none"
        /\ op' = "build_search_request"
        /\ args' = search_args
        /\ ret' = build_search_request(search_args)
        /\ UNCHANGED <<pool, trees, buf, net, runVars>>

NormalizeCustomerId ==
    \E value \in CustomerIds :
        /\ op = "none"
        /\ op' = "normalize_customer_id"
        /\ args' = value
        /\ ret' = normalize_customer_id(value)
        /\ UNCHANGED <<pool, trees, buf, net, runVars>>

NormalizeEndpoint ==
    \E endpoint \in Endpoints :
        /\ op = "none"
        /\ op' = "normalize_endpoint"
        /\ args' = endpoint
        /\ ret' = normalize_endpoint(endpoint)
        /\ UNCHANGED <<pool, trees, buf, net, runVars>>

BuildTreeOf ==
    \E pool_ \in VersionPools :
        /\ op = "none"
        /\ op' = "build_tree"
        /\ args' = pool_
        /\ ret' = build_tree(pool_)
        /\ UNCHANGED <<pool, trees, buf, net, runVars>>

\* The client the operations are called on.
CallClient ==
    [channel |-> <<"h", "t", "t", "p", "s", ":", "/", "/", "g", "o", "o", "g", "l", "e", "a", "d", "s", ".", "g", "o", "o", "g", "l", "e", "a", "p", "i", "s", ".", "c", "o", "m">>, developer_token |-> <<"d", "e", "v">>,
     login_customer_id |-> None, access_token |-> <<"t", "o", "k">>, timeout |-> None]

\* MutateArgs: with and without a body and operations, a body of its own
\* customer, a body and operations that do not decode.
MutateArgsSet ==
    [customer_id : {<<"9", "9", "9">>},
     ops : {None, Some(OperationsValue), Some(Value_String(<<"o", "p">>))},
     body : {None, Some(MutateBody), Some(UnknownFieldBody)},
     partial_failure : BOOLEAN,
     validate_only : BOOLEAN,
     response_content_type : {None, Some(<<"R", "E", "S", "O", "U", "R", "C", "E", "_", "N", "A", "M", "E", "_", "O", "N", "L", "Y">>)}]

RunMutate ==
    \E mutate_args \in MutateArgsSet, outcome \in UnaryPeers :
        LET r == run_mutate(CallClient, pool, mutate_args, outcome, <<>>)
        IN  /\ op = "none"
            /\ op' = "run_mutate"
            /\ args' = [args |-> mutate_args, outcome |-> outcome]
            /\ ret' = r.result
            /\ net' = r.net
            /\ UNCHANGED <<pool, trees, buf, runVars>>

\* Messages of a stream that differ, so that their order shows.
StreamSamples ==
    {default_message("Response"),
     [default_message("Response") EXCEPT !.results = <<[id |-> 200]>>, !.total = 200],
     [default_message("Response") EXCEPT !.results = <<[id |-> 0], [id |-> 200]>>]}

CallStreamPeers ==
    {[unary |-> Err(<<"s", "t", "a", "t", "u", "s", ":", " ", "U", "n", "a", "v", "a", "i", "l", "a", "b", "l", "e">>), stream |-> o] :
        o \in StreamOutcomesOf(StreamSamples)}

\* The searches run: each variant and output, with a setting that is no
\* name of the enum among them.
RunSearchArgsSet ==
    {a \in SearchArgsSet :
        /\ ~a.validate_only
        /\ ~a.page_size.some
        /\ ~a.page_token.some
        /\ ~a.return_total_results_count
        /\ a.summary_row_setting # Some(<<"N", "O", "_", "S", "U", "M", "M", "A", "R", "Y", "_", "R", "O", "W">>)}

RunSearch ==
    \E search_args \in RunSearchArgsSet :
        \E outcome \in IF search_args.use_search THEN UnaryPeers ELSE CallStreamPeers :
            LET r == run_search(CallClient, pool, search_args, outcome, <<>>)
            IN  /\ op = "none"
                /\ op' = "run_search"
                /\ args' = [args |-> search_args, outcome |-> outcome]
                /\ ret' = r.result
                /\ net' = r.net
                /\ UNCHANGED <<pool, trees, buf, runVars>>

ServerStreamCall ==
    \E method \in MethodDescriptors(pool), outcome \in StreamOutcomesOf(StreamSamples) :
        LET r == server_stream(CallClient, pool, method, default_message("Request"),
                               outcome, <<>>)
        IN  /\ op = "none"
            /\ op' = "server_stream"
            /\ args' = [method |-> method, outcome |-> outcome]
            /\ ret' = r.result
            /\ net' = r.net
            /\ UNCHANGED <<pool, trees, buf, runVars>>

NextCall ==
    \/ BuildSearchRequest
    \/ RunMutate
    \/ RunSearch
    \/ ServerStreamCall
    \/ NormalizeCustomerId
    \/ NormalizeEndpoint
    \/ BuildTreeOf

CallSpec == InitCall /\ [][NextCall]_vars

(***************************************************************************)
(* Properties of the registry.                                             *)
(***************************************************************************)
Visible(i) ==
    /\ starts_with(full_name(pool[i]), <<"g", "o", "o", "g", "l", "e", ".", "a", "d", "s", ".", "g", "o", "o", "g", "l", "e", "a", "d", "s", ".">>)
    /\ contains(full_name(pool[i]), <<".", "s", "e", "r", "v", "i", "c", "e", "s", ".">>)

\* The lowercase alphanumeric characters of a string, in order.
Normalized(value) ==
    LET keep == {i \in 1..Len(value) : is_ascii_alphanumeric(value[i])}
        nth(k) == CHOOSE i \in keep : Cardinality({h \in keep : h < i}) = k - 1
    IN  [k \in 1..Cardinality(keep) |-> to_ascii_lowercase(value[nth(k)])]

\* The normalized forms under which a service and a method may be named.
ServiceKeys(service) ==
    {Normalized(service.name), Normalized(to_kebab(service.name)),
     Normalized(full_name(service))}

MethodKeys(m) == {Normalized(m.name), Normalized(to_kebab(m.name))}

\* The visible services matching the service argument, and the methods of
\* service i matching the method argument, under whole-name equality.
MatchingServices ==
    {i \in 1..Len(pool) : Visible(i) /\ Normalized(args.service) \in ServiceKeys(pool[i])}

MatchingMethods(i) ==
    {j \in 1..Len(pool[i].methods) :
        Normalized(args.method) \in MethodKeys(pool[i].methods[j])}

ProperSubstring(a, b) == Len(a) < Len(b) /\ contains(b, a)

\* C2 as stated: every form of a visible service and of its method, the
\* fully-qualified method name included, resolves to that method.
C2_EveryFormResolves ==
    op = "find_method" =>
        \A i \in 1..Len(pool) : \A j \in 1..Len(pool[i].methods) :
            (/\ Visible(i)
             /\ args.service \in ServiceForms(pool[i])
             /\ args.method \in MethodForms(pool[i], pool[i].methods[j]))
            => (ret.ok /\ ret.val = [service |-> i, method |-> j])

\* C2 (amended): with the service given by its declared, hyphenated or
\* fully-qualified name and the method by its declared or hyphenated name,
\* find_method returns that method with its streaming flags, provided no
\* earlier visible service and no earlier method of the service has a form
\* that normalizes to the same string (the first match in pool order wins).
C2_NameFormsResolve ==
    op = "find_method" =>
        \A i \in 1..Len(pool) : \A j \in 1..Len(pool[i].methods) :
            (/\ Visible(i)
             /\ args.service \in ServiceForms(pool[i])
             /\ args.method \in {pool[i].methods[j].name, to_kebab(pool[i].methods[j].name)}
             /\ \A k \in MatchingServices : i <= k
             /\ \A l \in MatchingMethods(i) : j <= l)
            => (/\ ret.ok
                /\ ret.val = [service |-> i, method |-> j]
                /\ pool[ret.val.service].methods[ret.val.method].client_streaming
                      = pool[i].methods[j].client_streaming
                /\ pool[ret.val.service].methods[ret.val.method].server_streaming
                      = pool[i].methods[j].server_streaming)

\* C2 witness: a hyphenated service name and a hyphenated method name resolve
\* to a server-streaming method.
C2_Witness ==
    /\ op = "find_method"
    /\ ret.ok
    /\ args.service = <<"a", "d", "-", "s", "e", "r", "v", "i", "c", "e">>
    /\ args.method = <<"s", "e", "a", "r", "c", "h", "-", "s", "t", "r", "e", "a", "m">>
    /\ pool[ret.val.service].methods[ret.val.method].server_streaming
    /\ ~pool[ret.val.service].methods[ret.val.method].client_streaming

\* C3 as stated: the error names the one unresolved token and nothing else.
C3_ErrorNamesOnlyTheToken ==
    (op = "find_method" /\ ~ret.ok) =>
        \/ ret.err = <<"u", "n", "k", "n", "o", "w", "n", " ", "s", "e", "r", "v", "i", "c", "e", " ">> \o args.service
        \/ ret.err = <<"u", "n", "k", "n", "o", "w", "n", " ", "m", "e", "t", "h", "o", "d", " ">> \o args.method

\* C3 (amended): an unknown service gives "unknown service <service>"; an
\* unknown method of the matched service gives "unknown method <service>
\* <method>", which names the service argument as well; in both cases no
\* method is returned, and find_method performs no network operation.
C3_ResolutionErrors ==
    op = "find_method" =>
        /\ MatchingServices = {} =>
              (~ret.ok /\ ret.err = <<"u", "n", "k", "n", "o", "w", "n", " ", "s", "e", "r", "v", "i", "c", "e", " ">> \o args.service)
        /\ (MatchingServices # {} /\ MatchingMethods(Min(MatchingServices)) = {}) =>
              (/\ ~ret.ok
               /\ ret.err = <<"u", "n", "k", "n", "o", "w", "n", " ", "m", "e", "t", "h", "o", "d", " ">> \o args.service \o <<" ">> \o args.method)
        /\ ~ret.ok =>
              \/ MatchingServices = {}
              \/ MatchingMethods(Min(MatchingServices)) = {}
        /\ net = <<>>

\* C3 witness: a known service with an unknown method.
C3_Witness ==
    /\ op = "find_method"
    /\ ~ret.ok
    /\ MatchingServices # {}
    /\ args.method = <<"n", "o", "p", "e">>

\* C6: find_method returns method M of service S only if S is visible, the
\* service argument normalizes to a form of S's name and the method argument
\* to a form of M's name; an argument that normalizes to a proper substring of
\* a service's or method's forms, and to none of them, does not resolve to it.
C6_WholeNameEquality ==
    op = "find_method" =>
        /\ ret.ok =>
              /\ ret.val.service \in MatchingServices
              /\ ret.val.method \in MatchingMethods(ret.val.service)
        /\ \A i \in 1..Len(pool) :
              (/\ \E key \in ServiceKeys(pool[i]) : ProperSubstring(Normalized(args.service), key)
               /\ Normalized(args.service) \notin ServiceKeys(pool[i]))
              => ~(ret.ok /\ ret.val.service = i)
        /\ \A i \in 1..Len(pool) : \A j \in 1..Len(pool[i].methods) :
              (/\ \E key \in MethodKeys(pool[i].methods[j]) :
                     ProperSubstring(Normalized(args.method), key)
               /\ Normalized(args.method) \notin MethodKeys(pool[i].methods[j]))
              => ~(ret.ok /\ ret.val = [service |-> i, method |-> j])

\* C6 witness: a proper prefix of a visible service's name does not resolve.
C6_Witness ==
    /\ op = "find_method"
    /\ args.service = <<"A", "d">>
    /\ \E i \in 1..Len(pool) : Visible(i) /\ pool[i].name = <<"A", "d", "S", "e", "r", "v", "i", "c", "e">>
    /\ ~ret.ok

\* The best form under which service i matches the service argument:
\* 1 declared name, 2 hyphenated name, 3 fully-qualified name.
MatchRank(i) ==
    IF Normalized(args.service) = Normalized(pool[i].name) THEN 1
    ELSE IF Normalized(args.service) = Normalized(to_kebab(pool[i].name)) THEN 2
    ELSE 3

\* C7 as stated: among the visible services that match, one matching by a
\* preferred form is chosen, whatever the pool's order.
C7_PreferredFormWins ==
    (op = "find_method" /\ ret.ok) =>
        \A i \in MatchingServices : MatchRank(ret.val.service) <= MatchRank(i)

\* C7 (amended): the service chosen is the first visible service, in the
\* pool's order, that matches under any of the three forms.
C7_FirstMatchInPoolOrder ==
    (op = "find_method" /\ ret.ok) =>
        /\ ret.val.service \in MatchingServices
        /\ \A i \in MatchingServices : ret.val.service <= i

\* C7 witness: the service chosen matches by its fully-qualified name only,
\* and a later service matches by its declared name.
C7_Witness ==
    /\ op = "find_method"
    /\ ret.ok
    /\ \E i \in MatchingServices :
          /\ ret.val.service < i
          /\ MatchRank(i) = 1
          /\ MatchRank(ret.val.service) = 3

NonDecreasing(names) ==
    \A k \in 1..(Len(names) - 1) : ~StrLess(names[k + 1], names[k])

\* C8 as stated: services and methods are in non-decreasing order of their
\* normalized (lowercase alphanumeric) name, and repeated calls agree.
C8_SortedByNormalizedName ==
    op = "build_tree" =>
        /\ NonDecreasing([k \in 1..Len(ret.services) |-> Normalized(ret.services[k].name)])
        /\ \A s \in 1..Len(ret.services) :
              NonDecreasing([k \in 1..Len(ret.services[s].methods) |->
                                Normalized(ret.services[s].methods[k].name)])
        /\ trees = {ret}

\* C8 (amended): services and methods are in non-decreasing byte order of
\* their hyphenated name (the name field of the tree), and every call of
\* build_tree on the pool returns the same tree.
C8_SortedByHyphenatedName ==
    op = "build_tree" =>
        /\ NonDecreasing([k \in 1..Len(ret.services) |-> ret.services[k].name])
        /\ \A s \in 1..Len(ret.services) :
              NonDecreasing([k \in 1..Len(ret.services[s].methods) |->
                                ret.services[s].methods[k].name])
        /\ trees = {ret}

\* C8 witness: a tree of two services that the sort has put in another order
\* than the pool's.
C8_Witness ==
    /\ op = "build_tree"
    /\ Len(ret.services) = 2
    /\ Len(pool) = 2
    /\ ret.services[1].full_name = full_name(pool[2])
    /\ StrLess(ret.services[1].name, ret.services[2].name)

\* C9: every service of the tree, and the parent service of every method
\* found or described, has a full name that starts with google.ads.googleads.
\* and contains .services.; every such service of the pool is in the tree
\* exactly once.
C9_OnlyVisibleServices ==
    /\ op = "build_tree" =>
          /\ \A k \in 1..Len(ret.services) :
                /\ starts_with(ret.services[k].full_name, <<"g", "o", "o", "g", "l", "e", ".", "a", "d", "s", ".", "g", "o", "o", "g", "l", "e", "a", "d", "s", ".">>)
                /\ contains(ret.services[k].full_name, <<".", "s", "e", "r", "v", "i", "c", "e", "s", ".">>)
          /\ \A i \in 1..Len(pool) :
                Visible(i) =>
                    Cardinality({k \in 1..Len(ret.services) :
                                    ret.services[k].full_name = full_name(pool[i])}) = 1
    /\ (op = "find_method" /\ ret.ok) => Visible(ret.val.service)
    /\ (op = "describe_method" /\ ret.ok) =>
          /\ starts_with(ret.val.service, <<"g", "o", "o", "g", "l", "e", ".", "a", "d", "s", ".", "g", "o", "o", "g", "l", "e", "a", "d", "s", ".">>)
          /\ contains(ret.val.service, <<".", "s", "e", "r", "v", "i", "c", "e", "s", ".">>)

\* C9 witness: a method is described while the pool also holds a service of
\* the same declared name that is not visible.
C9_Witness ==
    /\ op = "describe_method"
    /\ ret.ok
    /\ \E i \in 1..Len(pool) :
          ~Visible(i) /\ Normalized(pool[i].name) = Normalized(args.service)

(***************************************************************************)
(* Properties of the codec.                                                *)
(***************************************************************************)
\* C4 as stated: encoding any message of the type and decoding the bytes
\* produced yields Some(v') with v' equal to the message in every field.
C4_RoundTrip ==
    (op = "decode" /\ args.item.some) =>
        /\ ret.ok
        /\ ret.val.some
        /\ \A name \in DOMAIN args.item.val : ret.val.val[name] = args.item.val[name]

\* The round trip of every message whose encoding is not empty.
RoundTripOfNonEmptyEncoding ==
    (op = "decode" /\ args.item.some /\ args.src # <<>>) =>
        (ret.ok /\ ret.val.some /\ ret.val.val = args.item.val)

\* C5: the decoder returns no message if and only if the buffer holds no
\* byte; from a buffer that holds bytes it takes them all and returns a
\* message or an internal status whose message starts with "decode error".
C5_NoMessageIffEmpty ==
    op = "decode" =>
        /\ (ret.ok /\ ~ret.val.some) <=> (Len(args.src) = 0)
        /\ Len(args.src) > 0 =>
              /\ buf = <<>>
              /\ \/ ret.ok /\ ret.val.some
                 \/ /\ ~ret.ok
                    /\ ret.err.code = "Internal"
                    /\ starts_with(ret.err.message, <<"d", "e", "c", "o", "d", "e", " ", "e", "r", "r", "o", "r", ":", " ">>)

\* C5 witness: a frame of no bytes has been decoded to no message.
C5_Witness ==
    /\ op = "decode"
    /\ ~args.item.some
    /\ args.src = <<>>
    /\ ret = Ok(None)

\* A frame that does not parse has been decoded to an error.
DecodeErrorReached ==
    op = "decode" /\ Len(args.src) > 0 /\ ~ret.ok

(***************************************************************************)
(* Properties of the client.                                               *)
(***************************************************************************)
ClientCalls == {"unary", "server_stream", "server_streaming_raw"}

\* The values build_request makes headers of.
HeaderValues(self) ==
    {self.developer_token, <<"B", "e", "a", "r", "e", "r", " ">> \o trim(self.access_token)}
        \cup (IF self.login_customer_id.some THEN {self.login_customer_id.val} ELSE {})

ValidHeaderValue(value) ==
    \A i \in 1..Len(value) : value[i] = "\t" \/ value[i] \notin {"\t", "\n"}

\* C10: every request handed to the transport carries developer-token equal
\* to the configured developer token and authorization equal to "Bearer "
\* followed by the trimmed access token, and carries login-customer-id if and
\* only if one is configured (then equal to it); with a value that is not a
\* valid header value, every call returns an error and no request is issued.
C10_RequestHeaders ==
    /\ \A i \in 1..Len(net) :
          /\ net[i].kind = "rpc"
          /\ net[i].metadata["developer-token"] = client.val.developer_token
          /\ net[i].metadata["authorization"]
                = <<"B", "e", "a", "r", "e", "r", " ">> \o trim(client.val.access_token)
          /\ ("login-customer-id" \in DOMAIN net[i].metadata)
                <=> client.val.login_customer_id.some
          /\ client.val.login_customer_id.some =>
                net[i].metadata["login-customer-id"] = client.val.login_customer_id.val
    /\ (\E value \in HeaderValues(client.val) : ~ValidHeaderValue(value)) =>
          /\ net = <<>>
          /\ op \in ClientCalls => ~ret.ok

\* C10 witness: a request was issued by a client whose access token has
\* whitespace around it and that has a login customer id.
C10_Witness ==
    /\ op \in ClientCalls
    /\ Len(net) = 2
    /\ {net[1].mode, net[2].mode} = {"unary", "server_streaming"}
    /\ client.val.access_token # trim(client.val.access_token)
    /\ client.val.login_customer_id.some

\* A call of a client with an invalid header value has returned an error.
InvalidHeaderRejected ==
    /\ op \in ClientCalls
    /\ ~ret.ok
    /\ net = <<>>
    /\ ~ValidHeaderValue(client.val.developer_token)

(***************************************************************************)
(* Properties of a run.                                                    *)
(***************************************************************************)
\* C1 as stated: when the raw command ends with the error that client
\* streaming is not supported, no network operation has been performed: no
\* token request, no connection attempt and no call.
C1_RejectedBeforeNetwork ==
    (/\ pc = "done"
     /\ cli.matches.command = "raw"
     /\ ~ret.ok
     /\ ret.err = <<"c", "l", "i", "e", "n", "t", " ", "s", "t", "r", "e", "a", "m", "i", "n", "g", " ", "i", "s", " ", "n", "o", "t", " ", "s", "u", "p", "p", "o", "r", "t", "e", "d">>) => net = <<>>

\* What the code does: the error is raised after the connection attempt.
RejectedAfterConnect ==
    (/\ pc = "done"
     /\ cli.matches.command = "raw"
     /\ ~ret.ok
     /\ ret.err = <<"c", "l", "i", "e", "n", "t", " ", "s", "t", "r", "e", "a", "m", "i", "n", "g", " ", "i", "s", " ", "n", "o", "t", " ", "s", "u", "p", "p", "o", "r", "t", "e", "d">>) =>
        /\ net # <<>>
        /\ net[Len(net)].kind = "connect"
        /\ \A i \in 1..Len(net) : net[i].kind \in {"oauth", "connect"}

ClientStreamingRejected ==
    /\ pc = "done"
    /\ ~ret.ok
    /\ ret.err = <<"c", "l", "i", "e", "n", "t", " ", "s", "t", "r", "e", "a", "m", "i", "n", "g", " ", "i", "s", " ", "n", "o", "t", " ", "s", "u", "p", "p", "o", "r", "t", "e", "d">>
    /\ Len(net) = 2

\* The network operations of a kind a run has performed so far.
Sent(kind) == {i \in 1..Len(net) : net[i].kind = kind}

\* The place of a kind of network operation in a run.
KindRank(kind) == CASE kind = "oauth" -> 1 [] kind = "connect" -> 2 [] OTHER -> 3

\* The status the peer answered the call of the run with, if it failed.
PeerFailures ==
    IF Sent("rpc") = {} THEN {}
    ELSE IF net[Len(net)].mode = "unary"
    THEN (IF args.unary.ok THEN {} ELSE {args.unary.err})
    ELSE (IF args.stream.open.some THEN {args.stream.open.val} ELSE {})
             \cup (IF args.stream.error.some THEN {args.stream.error.val} ELSE {})

\* C11: a run asks for a token, connects and issues a call at most once
\* each, in that order; a run that succeeds has connected and called exactly
\* once; and a failure of the connection attempt, of the encoding of the
\* request, of the call or of a message of its stream ends the run with that
\* error, nothing being attempted after it.
C11_NoRetry ==
    /\ Cardinality(Sent("oauth")) <= 1
    /\ Cardinality(Sent("connect")) <= 1
    /\ Cardinality(Sent("rpc")) <= 1
    /\ \A i, j \in 1..Len(net) : i < j => KindRank(net[i].kind) < KindRank(net[j].kind)
    /\ (pc = "done" /\ ret.ok /\ cli.matches.command \in NetworkCommands) =>
           (Cardinality(Sent("connect")) = 1 /\ Cardinality(Sent("rpc")) = 1)
    /\ (pc \in {"dispatch", "stream"}) => (client.some /\ Cardinality(Sent("connect")) = 1)
    /\ (pc = "done" /\ Sent("connect") # {} /\ ~client.some) =>
           (ret = Err(<<"t", "r", "a", "n", "s", "p", "o", "r", "t", " ", "e", "r", "r", "o", "r">>) /\ Sent("rpc") = {})
    /\ (pc = "done" /\ Sent("oauth") # {} /\ Sent("connect") = {}) => ~ret.ok
    /\ (pc = "done" /\ Sent("rpc") # {}) =>
           IF PeerFailures = {} THEN ret.ok
           ELSE ~ret.ok /\ ret.err \in PeerFailures
    /\ (pc = "done" /\ ~ret.ok /\ ret.err \in {<<"i", "n", "v", "a", "l", "i", "d", " ", "d", "e", "v", "e", "l", "o", "p", "e", "r", " ", "t", "o", "k", "e", "n">>,
                                                  <<"i", "n", "v", "a", "l", "i", "d", " ", "a", "c", "c", "e", "s", "s", " ", "t", "o", "k", "e", "n">>,
                                                  <<"i", "n", "v", "a", "l", "i", "d", " ", "l", "o", "g", "i", "n", "-", "c", "u", "s", "t", "o", "m", "e", "r", "-", "i", "d">>}) =>
           Sent("rpc") = {}

\* A run whose call failed after a token request and a connection.
C11_Witness ==
    /\ pc = "done"
    /\ Len(net) = 3
    /\ net[3].kind = "rpc"
    /\ ~ret.ok
    /\ ret.err \in PeerFailures

\* A run that ended with the status of a stream that had delivered a message.
StreamFailureSurfaced ==
    /\ pc = "done"
    /\ Sent("rpc") # {}
    /\ net[Len(net)].mode = "server_streaming"
    /\ args.stream.error.some
    /\ Len(args.stream.messages) >= 1
    /\ ret = Err(args.stream.error.val)

(***************************************************************************)
(* Properties of the operations called one at a time.                      *)
(***************************************************************************)
\* C13: the search request is an object that always holds customerId and
\* query with the values given; it holds pageSize and pageToken exactly when
\* the unary variant is asked for and the value is supplied,
\* returnTotalResultsCount exactly when the unary variant and the flag are
\* both set, validateOnly exactly when the flag is set, summaryRowSetting
\* exactly when a setting is supplied, and no other key.
C13_SearchRequestKeys ==
    op = "build_search_request" =>
        /\ ret.t = "object"
        /\ {"customerId", "query"} \subseteq DOMAIN ret.o
        /\ ret.o["customerId"] = Value_String(args.customer_id)
        /\ ret.o["query"] = Value_String(args.query)
        /\ "pageSize" \in DOMAIN ret.o <=> (args.use_search /\ args.page_size.some)
        /\ "pageToken" \in DOMAIN ret.o <=> (args.use_search /\ args.page_token.some)
        /\ "returnTotalResultsCount" \in DOMAIN ret.o <=>
               (args.use_search /\ args.return_total_results_count)
        /\ "validateOnly" \in DOMAIN ret.o <=> args.validate_only
        /\ "summaryRowSetting" \in DOMAIN ret.o <=> args.summary_row_setting.some
        /\ DOMAIN ret.o \subseteq {"customerId", "query", "pageSize", "pageToken",
                                   "returnTotalResultsCount", "validateOnly",
                                   "summaryRowSetting"}
        /\ "pageSize" \in DOMAIN ret.o => ret.o["pageSize"] = Value_Number(args.page_size.val)
        /\ "pageToken" \in DOMAIN ret.o => ret.o["pageToken"] = Value_String(args.page_token.val)
        /\ "summaryRowSetting" \in DOMAIN ret.o =>
               ret.o["summaryRowSetting"] = Value_String(args.summary_row_setting.val)
        /\ "validateOnly" \in DOMAIN ret.o => ret.o["validateOnly"] = Value_Bool(TRUE)
        /\ "returnTotalResultsCount" \in DOMAIN ret.o =>
               ret.o["returnTotalResultsCount"] = Value_Bool(TRUE)

\* The streaming variant asked with a page size, a page token and the count
\* of all results: none of the three is in the request.
C13_Witness ==
    /\ op = "build_search_request"
    /\ ~args.use_search
    /\ args.page_size.some
    /\ args.page_token.some
    /\ args.return_total_results_count
    /\ args.summary_row_setting.some
    /\ DOMAIN ret.o = {"customerId", "query", "summaryRowSetting"}

\* The request the claim describes for operations given without a body.
ShapedMutateRequest(a) ==
    LET r1 == insert(insert(<<>>, "customerId", Value_String(a.customer_id)),
                     "mutateOperations", a.ops.val)
        r2 == IF a.partial_failure THEN insert(r1, "partialFailure", Value_Bool(TRUE)) ELSE r1
        r3 == IF a.validate_only THEN insert(r2, "validateOnly", Value_Bool(TRUE)) ELSE r2
        r4 == IF a.response_content_type.some
              THEN insert(r3, "responseContentType", Value_String(a.response_content_type.val))
              ELSE r3
    IN  Value_Object(r4)

\* The call a value leads to: none if the value is no request of Mutate,
\* else one call carrying the message the value decodes to.
CallCarries(value) ==
    LET message == dynamic_from_value("MutateRequest", value)
    IN  IF message.ok
        THEN Len(net) = 1 /\ net[1].kind = "rpc" /\ net[1].message = message.val
        ELSE net = <<>> /\ ret = Err(<<"d", "e", "c", "o", "d", "e", " ", "j", "s", "o", "n", " ", "i", "n", "t", "o", " ", "p", "r", "o", "t", "o">>)

HasMutate == \E i \in 1..Len(pool) : pool[i].name = <<"G", "o", "o", "g", "l", "e", "A", "d", "s", "S", "e", "r", "v", "i", "c", "e">>

\* C14: with a body supplied, run_mutate hands exactly that body to the
\* encoder, whatever the customer, the operations and the flags are; with
\* neither a body nor operations it fails and issues no call; with
\* operations and no body the request is customerId and mutateOperations,
\* and partialFailure, validateOnly and responseContentType exactly when
\* the option is set.
C14_BodyPassesThrough ==
    op = "run_mutate" =>
        LET a == args.args
        IN  /\ ~HasMutate => (~ret.ok /\ net = <<>>)
            /\ (HasMutate /\ a.body.some) => CallCarries(a.body.val)
            /\ (~a.body.some /\ ~a.ops.some) =>
                   /\ ~ret.ok
                   /\ net = <<>>
                   /\ HasMutate => ret.err = <<"-", "-", "o", "p", "s", " ", "r", "e", "q", "u", "i", "r", "e", "d", " ", "u", "n", "l", "e", "s", "s", " ", "-", "-", "b", "o", "d", "y", " ", "p", "r", "o", "v", "i", "d", "e", "d">>
                   /\ ~mutate_build_request(a).ok
            /\ (~a.body.some /\ a.ops.some) =>
                   /\ mutate_build_request(a) = Ok(ShapedMutateRequest(a))
                   /\ HasMutate => CallCarries(ShapedMutateRequest(a))

\* A body supplied together with operations and flags, and sent as it is.
C14_Witness ==
    /\ op = "run_mutate"
    /\ args.args.body = Some(MutateBody)
    /\ args.args.ops.some
    /\ args.args.partial_failure
    /\ Len(net) = 1
    /\ net[1].message.customer_id = <<"1", "2", "3">>
    /\ ret.ok

\* Operations missing: the error, and no call.
OpsRequired ==
    /\ op = "run_mutate"
    /\ ret = Err(<<"-", "-", "o", "p", "s", " ", "r", "e", "q", "u", "i", "r", "e", "d", " ", "u", "n", "l", "e", "s", "s", " ", "-", "-", "b", "o", "d", "y", " ", "p", "r", "o", "v", "i", "d", "e", "d">>)
    /\ net = <<>>

\* The positions of a string that hold an ASCII digit.
DigitPositions(s) ==
    {i \in 1..Len(s) : s[i] \in {"0", "1", "2", "3", "4", "5", "6", "7", "8", "9"}}

\* The ASCII digits of a string, in their order.
DigitsOf(s) ==
    LET nth(k) == CHOOSE i \in DigitPositions(s) :
                      Cardinality({h \in DigitPositions(s) : h < i}) = k - 1
    IN  [k \in 1..Cardinality(DigitPositions(s)) |-> s[nth(k)]]

\* C15: normalize_customer_id gives exactly the ASCII digits of its
\* argument in their order ("123-456-7890" gives "1234567890", "ID: 42"
\* gives "42"), and applied to its result it gives the result again.
C15_DigitsOnly ==
    op = "normalize_customer_id" =>
        /\ ret = DigitsOf(args)
        /\ args = <<"1", "2", "3", "-", "4", "5", "6", "-", "7", "8", "9", "0">> => ret = <<"1", "2", "3", "4", "5", "6", "7", "8", "9", "0">>
        /\ args = <<"I", "D", ":", " ", "4", "2">> => ret = <<"4", "2">>
        /\ normalize_customer_id(ret) = ret

\* An identifier with letters, a colon and a space around its digits.
C15_Witness ==
    /\ op = "normalize_customer_id"
    /\ args = <<"I", "D", ":", " ", "4", "2">>
    /\ ret = <<"4", "2">>

\* The run's call was a server-streaming one whose stream delivered at least
\* one message and then reported a status.
StreamFailedAfterMessages ==
    /\ pc = "done"
    /\ Sent("rpc") # {}
    /\ net[Len(net)].mode = "server_streaming"
    /\ ~args.stream.open.some
    /\ args.stream.error.some
    /\ Len(args.stream.messages) >= 1

\* C16 as stated: when a stream reports a status after delivering
\* messages, the run ends with that status and none of the messages has
\* been written to the output, in every way of consuming the stream.
C16_NoPartialResults ==
    StreamFailedAfterMessages => (ret = Err(args.stream.error.val) /\ stdout = <<>>)

\* What the code does: nothing is written by gaql search, nor by raw without
\* --jsonl; raw with --jsonl has written every message delivered before the
\* status.
PartialResultsOnlyOfRawJsonl ==
    StreamFailedAfterMessages =>
        /\ ret = Err(args.stream.error.val)
        /\ IF cli.matches.command = "raw" /\ cli.matches.jsonl
           THEN Len(stdout) = Len(args.stream.messages)
           ELSE stdout = <<>>

\* gaql search with --jsonl on a stream that failed after a message.
GaqlJsonlStreamFailed ==
    /\ StreamFailedAfterMessages
    /\ cli.matches.command = "gaql"
    /\ cli.matches.jsonl
    /\ stdout = <<>>

\* The JSON of the rows of one response, taken from its results field.
RowsOf(response) ==
    [i \in 1..Len(response.results) |-> serialize_message("Row", response.results[i])]

\* The rows of the messages of a stream one after the other, in the order
\* of the messages.
RECURSIVE RowsInOrder(_)
RowsInOrder(messages) ==
    IF messages = <<>> THEN <<>>
    ELSE RowsInOrder(SubSeq(messages, 1, Len(messages) - 1))
             \o RowsOf(messages[Len(messages)])

\* The pool has the service of gaql search, and the request of the search
\* decodes.
SearchIsSent ==
    /\ \E i \in 1..Len(pool) : pool[i].name = <<"G", "o", "o", "g", "l", "e", "A", "d", "s", "S", "e", "r", "v", "i", "c", "e">>
    /\ ~args.args.summary_row_setting.some

\* The stream of the call was opened and ended without a status.
StreamCompleted == ~args.outcome.open.some /\ ~args.outcome.error.some

ServerStreamInOrder ==
    /\ op = "server_stream"
    /\ StreamCompleted
    /\ Len(args.outcome.messages) = 2
    /\ args.outcome.messages[1] # args.outcome.messages[2]
    /\ ret = Ok(args.outcome.messages)

\* C18: the unary search returns the whole decoded response when raw
\* output is asked for; otherwise it returns the value of the response's
\* results, or an empty array when the response has none.
C18_UnaryNarrowing ==
    (/\ op = "run_search"
     /\ args.args.use_search
     /\ SearchIsSent
     /\ args.outcome.unary.ok) =>
        LET response == args.outcome.unary.val
        IN  IF args.args.raw
            THEN ret = Ok(Output_Json(dynamic_to_value("Response", response).val))
            ELSE /\ ret = Ok(Output_Json(Value_Array(RowsOf(response))))
                 /\ response.results = <<>> => ret.val.value = Value_Array(<<>>)

\* A raw unary search: the response comes back with its total and its
\* results.
C18_Witness ==
    /\ op = "run_search"
    /\ args.args.use_search
    /\ args.args.raw
    /\ args.outcome.unary.ok
    /\ args.outcome.unary.val.total = 200
    /\ ret.ok
    /\ DOMAIN ret.val.value.o = {"results", "total"}

\* A unary search narrowed to the results of a response that has none.
NarrowedToEmptyArray ==
    /\ op = "run_search"
    /\ args.args.use_search
    /\ ~args.args.raw
    /\ args.outcome.unary.ok
    /\ args.outcome.unary.val.results = <<>>
    /\ ret = Ok(Output_Json(Value_Array(<<>>)))

\* The segments of a dotted name: its longest stretches without a dot.
Segments(name) ==
    {SubSeq(name, p[1], p[2]) :
        p \in {q \in (1..Len(name)) \X (1..Len(name)) :
                  /\ q[1] <= q[2]
                  /\ q[1] = 1 \/ name[q[1] - 1] = "."
                  /\ q[2] = Len(name) \/ name[q[2] + 1] = "."
                  /\ \A i \in q[1]..q[2] : name[i] # "."}}

\* A "v" followed by one or more digits and nothing else.
VersionShaped(seg) ==
    /\ Len(seg) >= 2
    /\ seg[1] = "v"
    /\ \A i \in 2..Len(seg) : seg[i] \in {"0", "1", "2", "3", "4", "5", "6", "7", "8", "9"}

\* The version-shaped segments of the names of the visible services of a pool.
VersionsOf(pool_) ==
    UNION {{seg \in Segments(full_name(pool_[i])) : VersionShaped(seg)} :
              i \in {k \in 1..Len(pool_) :
                        /\ starts_with(full_name(pool_[k]), <<"g", "o", "o", "g", "l", "e", ".", "a", "d", "s", ".", "g", "o", "o", "g", "l", "e", "a", "d", "s", ".">>)
                        /\ contains(full_name(pool_[k]), <<".", "s", "e", "r", "v", "i", "c", "e", "s", ".">>)}}

\* C19: the api_version of the tree is a version-shaped segment of the name
\* of a visible service whenever there is one, and "unknown" exactly when
\* there is none; a bare "v" and a "v" followed by anything but digits do
\* not count, nor does a segment of a service that is not visible.
C19_ApiVersion ==
    op = "build_tree" =>
        /\ VersionsOf(args) # {} => ret.api_version \in VersionsOf(args)
        /\ ret.api_version = <<"u", "n", "k", "n", "o", "w", "n">> <=> VersionsOf(args) = {}

\* A pool whose first visible service has a bare "v" for a segment and whose
\* second has a version.
C19_Witness ==
    /\ op = "build_tree"
    /\ args = <<BareVService, V10Service>>
    /\ ret.api_version = <<"v", "1", "0">>

\* No version: a "v" followed by a letter, a digit followed by a letter, and
\* a version in the name of a service that is not visible.
VersionUnknown ==
    /\ op = "build_tree"
    /\ Len(args) = 2
    /\ args[1] \in {VxService, V1xService}
    /\ args[2] = CommonAdService
    /\ ret.api_version = <<"u", "n", "k", "n", "o", "w", "n">>

\* The endpoint begins with a scheme normalize_endpoint knows.
HasScheme(endpoint) ==
    \/ Len(endpoint) >= 7 /\ SubSeq(endpoint, 1, 7) = <<"h", "t", "t", "p", ":", "/", "/">>
    \/ Len(endpoint) >= 8 /\ SubSeq(endpoint, 1, 8) = <<"h", "t", "t", "p", "s", ":", "/", "/">>

\* C20: an endpoint that starts with "http://" or "https://" is returned
\* unchanged, any other with "https://" put in front; so the result always
\* starts with one of the two, and normalizing it again changes nothing.
C20_SchemePrefixed ==
    op = "normalize_endpoint" =>
        /\ ret.ok
        /\ ret.val = IF HasScheme(args) THEN args
                     ELSE <<"h", "t", "t", "p", "s", ":", "/", "/">> \o args
        /\ HasScheme(ret.val)
        /\ normalize_endpoint(ret.val) = ret

\* An endpoint with the plain scheme, returned as it is.
C20_Witness ==
    /\ op = "normalize_endpoint"
    /\ args = <<"h", "t", "t", "p", ":", "/", "/", "h">>
    /\ ret = Ok(<<"h", "t", "t", "p", ":", "/", "/", "h">>)

\* An endpoint without a scheme, and one with a scheme in capitals.
SchemeAdded ==
    /\ op = "normalize_endpoint"
    /\ args \in {<<"l", "o", "c", "a", "l", "h", "o", "s", "t", ":", "8", "0", "8", "0">>, <<"H", "T", "T", "P", ":", "/", "/", "h">>}
    /\ ret = Ok(<<"h", "t", "t", "p", "s", ":", "/", "/">> \o args)

(***************************************************************************)
(* The order of the steps of run().                                        *)
(***************************************************************************)
IntrospectionRun == cli.matches.command \in {"list", "describe", "tree"}

\* run() has loaded the configuration; it has the access token.
ConfigLoaded == DOMAIN locals # {}

TokenResolved == ConfigLoaded /\ locals.access_token # <<>>

\* The errors run() returns before it has a client: those of load_config, of
\* resolve_access_token and of AdsClient::connect.
ErrorsBeforeDispatch ==
    {<<"G", "O", "O", "G", "L", "E", "_", "A", "D", "S", "_", "D", "E", "V", "E", "L", "O", "P", "E", "R", "_", "T", "O", "K", "E", "N", " ", "m", "i", "s", "s", "i", "n", "g">>, <<"G", "O", "O", "G", "L", "E", "_", "A", "D", "S", "_", "C", "L", "I", "E", "N", "T", "_", "I", "D", " ", "m", "i", "s", "s", "i", "n", "g">>,
     <<"G", "O", "O", "G", "L", "E", "_", "A", "D", "S", "_", "C", "L", "I", "E", "N", "T", "_", "S", "E", "C", "R", "E", "T", " ", "m", "i", "s", "s", "i", "n", "g">>, <<"G", "O", "O", "G", "L", "E", "_", "A", "D", "S", "_", "R", "E", "F", "R", "E", "S", "H", "_", "T", "O", "K", "E", "N", " ", "m", "i", "s", "s", "i", "n", "g">>,
     <<"r", "e", "q", "u", "e", "s", "t", " ", "O", "A", "u", "t", "h", " ", "t", "o", "k", "e", "n">>, <<"r", "e", "a", "d", " ", "O", "A", "u", "t", "h", " ", "r", "e", "s", "p", "o", "n", "s", "e">>, <<"d", "e", "c", "o", "d", "e", " ", "O", "A", "u", "t", "h", " ", "r", "e", "s", "p", "o", "n", "s", "e">>,
     <<"i", "n", "v", "a", "l", "i", "d", " ", "u", "r", "i", " ", "c", "h", "a", "r", "a", "c", "t", "e", "r">>, <<"t", "r", "a", "n", "s", "p", "o", "r", "t", " ", "e", "r", "r", "o", "r">>}
        \cup {<<"o", "a", "u", "t", "h", " ", "h", "t", "t", "p", " ">> \o o.status \o <<":", " ">> \o o.body : o \in OAuthOutcomes}

\* The paths of the methods of the pool.
PathsOf(pool_) ==
    UNION {{method_path(pool_, [service |-> s, method |-> m]) :
                m \in 1..Len(pool_[s].methods)} : s \in 1..Len(pool_)}

\* C21: a run of list, describe or tree never loads the configuration,
\* resolves a token, connects or issues a call, and ends in one step, with
\* output or with the error of describe; in a run of any other command a
\* token is asked for only after the configuration is loaded, the
\* connection is attempted only with the token resolved and after any token
\* request, the method is resolved and the request encoded only with the
\* client connected, and the call is issued last, for a method of the pool,
\* with the headers of that client.
C21_StepOrder ==
    IF IntrospectionRun
    THEN /\ ~ConfigLoaded
         /\ ~client.some
         /\ net = <<>>
         /\ pc \in {"start", "done"}
         /\ pc = "done" =>
                IF ret.ok THEN stdout # <<>>
                ELSE cli.matches.command = "describe" /\ stdout = <<>>
    ELSE /\ pc # "start" => (ConfigLoaded \/ (pc = "done" /\ net = <<>> /\ ~ret.ok))
         /\ Sent("oauth") # {} => ConfigLoaded
         /\ Sent("connect") # {} =>
                /\ TokenResolved
                /\ \A i \in Sent("oauth"), j \in Sent("connect") : i < j
         /\ client.some =>
                /\ Sent("connect") # {}
                /\ client.val.access_token = locals.access_token
         /\ (pc = "done" /\ ~client.some) =>
                /\ Sent("rpc") = {}
                /\ ~ret.ok
                /\ ret.err \in ErrorsBeforeDispatch
         /\ \A k \in Sent("rpc") :
                /\ client.some
                /\ k = Len(net)
                /\ \A j \in Sent("connect") : j < k
                /\ net[k].path \in PathsOf(pool)
                /\ build_request(client.val, net[k].message) =
                       Ok([message |-> net[k].message, metadata |-> net[k].metadata,
                           timeout |-> net[k].timeout])

\* A run that asked for a token, connected and called, one after the other,
\* and succeeded.
C21_Witness ==
    /\ ~IntrospectionRun
    /\ pc = "done"
    /\ ret.ok
    /\ Len(net) = 3
    /\ net[1].kind = "oauth"
    /\ net[2].kind = "connect"
    /\ net[3].kind = "rpc"

\* A run of describe that ended with the error of the resolution.
IntrospectionFailed ==
    /\ IntrospectionRun
    /\ pc = "done"
    /\ ~ret.ok

\* A run that had connected when the resolution of its method failed.
ResolutionFailedAfterConnect ==
    /\ ~IntrospectionRun
    /\ pc = "done"
    /\ client.some
    /\ Sent("rpc") = {}
    /\ ~ret.ok
    /\ ret.err \notin ErrorsBeforeDispatch

====
